---------------------------- MODULE Spec2Model ----------------------------
(***************************************************************************)
(* Model of vss (wyattjoh/vercel-scripts): script discovery, dependency    *)
(* resolution (sortScripts), selection, and the sequential run loop of     *)
(* main.                                                                   *)
(***************************************************************************)
EXTENDS Integers, Sequences, FiniteSets, TLC

VARIABLES
    disk,          \* the script directories' files: path -> [after, args, opts, malformed], the @vercel.* lines
    unreadable,    \* the script directories fs.readdir fails on
    replay,        \* options.replay
    appSelected,   \* the "selected" key of .vss-app.json
    pc,            \* where main stands
    persisted,     \* main's local: config.app.get("selected")
    scripts,       \* getScripts' allScripts, the discovery list
    stat,          \* sortScripts' pending resolution tasks: after name -> index of the directory probed (0: settled)
    cache,         \* sortScripts' cache, a Map: <<after name, absolute pathname>> in insertion order
    sorted,        \* what getScripts returned
    error,         \* the error main rejected with
    selected,      \* main's local: the scripts to run
    cursor,        \* position of the run loop in selected
    colorIndex,    \* main's local colorIndex
    running,       \* the child processes that are alive (positions in selected)
    announced,     \* absolute pathnames in the order they were announced
    started,       \* absolute pathnames in the order their process was spawned
    closes,        \* <<absolute pathname, exit code>> in the order processes closed
    exitCode,      \* the exit code of the invocation (-1: still running)
    invocation,    \* the number of this invocation of the resolver
    previous,      \* the outcome of the previous invocation of the resolver
    globalArgs,    \* the "args" key of ~/.vss.json: name -> value
    appOpts,       \* the "opts" key of .vss-app.json: name -> value
    args,          \* main's local args, the object config.global holds in memory
    opts,          \* main's local opts, the object config.app holds in memory
    todo,          \* what is left of the parameter resolution loops, in the order of the code
    prompts,       \* the prompts shown so far: [kind, name]
    warnings,      \* the options console.warn reported as skipped
    probes,        \* the base directories listWorktrees was called with
    envs,          \* the environment built for each script announced so far
    writes,        \* the calls of config.*.set made by this invocation, in order: [store, key]
    jsonFile,      \* createConfig: the JSON file of a store
    instance,      \* createConfig: the closure's cache, and whether this instance has called set
    got,           \* createConfig: what the last get returned
    put,           \* createConfig: the object the last set wrote
    wrapper,       \* runtime.sh: a run of the wrapper, [target, env, at, status, sourced]
    chunks,        \* the data chunks the children have written, in order: [child, stream, data]
    emitted,       \* the lines the data handlers have logged, in order: [tag, stream, line]
    scriptDirs,    \* add/remove-script-dir: the registered directories, as ~/.vss.json holds them
    command        \* add/remove-script-dir: the last command run, [name, path, code, done]

vars == <<disk, unreadable, jsonFile, instance, got, put, wrapper, chunks, emitted, scriptDirs, command, replay, appSelected, pc, persisted, scripts, stat, cache, sorted,
          error, selected, cursor, colorIndex, running, announced, started,
          closes, exitCode, invocation, previous, globalArgs, appOpts, args,
          opts, todo, prompts, warnings, probes, envs, writes>>

diskVars == <<disk, unreadable>>
outputVars == <<chunks, emitted>>
dirVars == <<scriptDirs, command>>
configVars == <<jsonFile, instance, got, put>>
sortVars == <<scripts, stat, cache, sorted, error>>
runVars == <<selected, cursor, colorIndex, running, announced, started, closes>>
storeVars == <<globalArgs, appOpts, writes>>
resolveVars == <<args, opts, todo, prompts, warnings, probes>>
paramVars == <<storeVars, resolveVars, envs>>

(***************************************************************************)
(* Bounds.                                                                 *)
(***************************************************************************)
\* the 'after' names declared by all the scripts of a resolver input, in total
MaxAfter == 3
\* the same, for the inputs of a whole invocation of main
MaxAfterRun == 2
\* the same, for the inputs the resolver is invoked on several times
MaxAfterTwice == 2
\* child processes close with an exit code in 0..MaxExitCode
MaxExitCode == 2
\* entries of the persisted selection
MaxPersisted == 2
\* invocations of the resolver on one input
MaxInvocations == 2
\* the 'after' names of the inputs that spread one name over several directories
MaxAfterResolve == 2

(***************************************************************************)
(* The file system.                                                        *)
(***************************************************************************)
EmbeddedDir == "emb"
\* config.global.get("scriptDirs"), in registration order
ExternalDirs == <<"ext", "ext2">>

\* the script files a directory may hold
Pool == {<<"emb", "a.sh">>, <<"emb", "b.sh">>, <<"ext", "a.sh">>, <<"ext", "c.sh">>}
\* the same, for the inputs of a whole invocation of main
RunPool == {<<"emb", "a.sh">>, <<"emb", "b.sh">>, <<"ext", "a.sh">>}
\* the same, for the inputs that spread one name over several directories
ResolvePool == {<<"emb", "a.sh">>, <<"ext", "a.sh">>, <<"ext", "c.sh">>,
                <<"ext2", "a.sh">>, <<"ext2", "c.sh">>}
\* a file that is no script
OtherFile == <<"emb", "x.txt">>
\* the order in which readdir lists a directory
FileOrder == <<"a.sh", "b.sh", "c.sh", "x.txt">>
\* what a script may name in @vercel.after
AfterNames == {"a.sh", "./b.sh", "c.sh", "x.txt"}

endsWithSh(file) == file \in {"a.sh", "b.sh", "c.sh"}

\* path.normalize on a relative name: a leading "./" is dropped
normalize(name) == IF name = "./b.sh" THEN "b.sh" ELSE name

\* path.join(directory, name)
path_join(directory, name) == <<directory, normalize(name)>>

NoError == [kind |-> "none", after |-> "", scripts |-> <<>>]

(***************************************************************************)
(* The values of the two stores, which JSON files keep: a string, a        *)
(* boolean or null. A name that is no key of a store is undefined.         *)
(***************************************************************************)
Str(s) == [type |-> "string", str |-> s, bool |-> FALSE]
Bool(b) == [type |-> "boolean", str |-> "", bool |-> b]
Null == [type |-> "null", str |-> "", bool |-> FALSE]
NoValues == [name \in {} |-> Null]

\* value.toString() of a boolean
toString(b) == IF b THEN "true" ELSE "false"

\* the truthiness of store[name], undefined included
truthy(store, name) ==
    /\ name \in DOMAIN store
    /\ \/ store[name].type = "string" /\ store[name].str # ""
       \/ store[name].type = "boolean" /\ store[name].bool

(***************************************************************************)
(* createConfig: a store over a JSON file, here config.app. The file is    *)
(* modelled by the tree JSON.parse reads and JSON.stringify writes: an     *)
(* object whose members are "selected", an array of strings, and "opts",   *)
(* an object of strings, booleans and nulls.                               *)
(***************************************************************************)
\* the defaults of config.app
defaults == [selected |-> <<>>, opts |-> NoValues]

\* the order in which the members of a record are written
NameOrder == <<"ADDR", "MODE", "WT">>

jsonString(s) == [t |-> "string", s |-> s]
jsonWord(w) == [t |-> w, s |-> ""]

\* a variant that writes every value as a string
stringifyQuoted(v) ==
    jsonString(IF v.type = "string" THEN v.str
               ELSE IF v.type = "boolean" THEN toString(v.bool) ELSE "null")

\* JSON.stringify of a string, a boolean, null
stringifyValue(v) ==
    IF v.type = "string" THEN jsonString(v.str)
    ELSE IF v.type = "boolean" THEN jsonWord(toString(v.bool)) ELSE jsonWord("null")

\* JSON.stringify of a Record<string, unknown>: its members, [name, json]
stringifyRecord(r) ==
    LET names == SelectSeq(NameOrder, LAMBDA n : n \in DOMAIN r)
    IN  [i \in 1..Len(names) |-> [name |-> names[i], json |-> stringifyValue(r[names[i]])]]

\* JSON.stringify(cache, null, 2)
JSON_stringify(c) ==
    [k \in DOMAIN c |->
        IF k = "selected" THEN [i \in 1..Len(c[k]) |-> jsonString(c[k][i])]
        ELSE stringifyRecord(c[k])]

\* JSON.parse of a string, true, false, null
parseValue(j) ==
    IF j.t = "string" THEN Str(j.s)
    ELSE IF j.t = "true" THEN Bool(TRUE)
    ELSE IF j.t = "false" THEN Bool(FALSE) ELSE Null

\* JSON.parse of an object: the last member of a name is the one that counts
parseRecord(members) ==
    [n \in {members[i].name : i \in 1..Len(members)} |->
        parseValue(members[CHOOSE i \in 1..Len(members) :
                              /\ members[i].name = n
                              /\ \A k \in (i + 1)..Len(members) : members[k].name # n].json)]

JSON_parse(json) ==
    [k \in DOMAIN json |->
        IF k = "selected" THEN [i \in 1..Len(json[k]) |-> json[k][i].s]
        ELSE parseRecord(json[k])]

\* no file, or a file JSON.parse throws on
NoFile == [exists |-> FALSE, json |-> <<>>]

\* loadConfigFile: JSON.parse(fs.readFileSync(file)), the defaults if that throws
loadConfigFile(f) == IF f.exists THEN JSON_parse(f.json) ELSE defaults

\* let cache: T, not loaded yet
NoCache == [loaded |-> FALSE, cache |-> <<>>, setter |-> FALSE]

\* if (!cache) cache = loadConfigFile(file, defaults)
cacheOf(inst, f) == IF inst.loaded THEN inst.cache ELSE loadConfigFile(f)

\* get: cache[key] ?? defaults[key]
get(inst, f, key) ==
    IF key \in DOMAIN cacheOf(inst, f) THEN cacheOf(inst, f)[key] ELSE defaults[key]

\* a variant that keeps nothing but the key it sets
assignAlone(c, key, value) == (key :> value)

\* set: cache[key] = value
assign(c, key, value) ==
    [k \in DOMAIN c \cup {key} |-> IF k = key THEN value ELSE c[k]]

NoGot == [key |-> "", value |-> <<>>, fresh |-> FALSE]
NoPut == [done |-> FALSE, cache |-> <<>>]

NoConfig ==
    /\ jsonFile = NoFile
    /\ instance = NoCache
    /\ got = NoGot
    /\ put = NoPut

(***************************************************************************)
(* runtime.sh: the wrapper that sources a script. No run of it yet.        *)
(***************************************************************************)
NoWrapper ==
    [target |-> [isFile |-> FALSE, how |-> "end", code |-> 0, errexit |-> TRUE],
     env |-> <<>>, at |-> "idle", status |-> -1, sourced |-> FALSE]

(***************************************************************************)
(* Discovery: getScriptsFromDirectory and getScripts.                      *)
(***************************************************************************)
readdir(dir) == SelectSeq(FileOrder, LAMBDA f : <<dir, f>> \in DOMAIN disk)

scriptOf(dir, file, embedded) ==
    [ absolutePathname |-> path_join(dir, file),
      pathname         |-> file,
      after            |-> disk[<<dir, file>>].after,
      args             |-> disk[<<dir, file>>].args,
      opts             |-> disk[<<dir, file>>].opts,
      embedded         |-> embedded ]

\* what makes the try block of getScriptsFromDirectory throw: fs.readdir
\* fails, or getScriptOpts throws on a file that was read (JSON.parse or
\* ScriptOptSchema.parse of an '@vercel.opt' line)
throws(dir) ==
    \/ dir \in unreadable
    \/ \E file \in {"a.sh", "b.sh", "c.sh"} :
          <<dir, file>> \in DOMAIN disk /\ disk[<<dir, file>>].malformed

\* the catch returns [] for the directory
getScriptsFromDirectory(dir, embedded) ==
    LET scriptFiles == SelectSeq(readdir(dir), endsWithSh)
    IN  IF throws(dir) THEN <<>>
        ELSE [i \in 1..Len(scriptFiles) |-> scriptOf(dir, scriptFiles[i], embedded)]

RECURSIVE flat(_)
flat(lists) == IF lists = <<>> THEN <<>> ELSE Head(lists) \o flat(Tail(lists))

\* a variant in which one directory that fails leaves nothing discovered
allScriptsOrNothing ==
    IF unreadable # {} THEN <<>>
    ELSE getScriptsFromDirectory(EmbeddedDir, TRUE)
            \o flat([i \in 1..Len(ExternalDirs) |->
                        getScriptsFromDirectory(ExternalDirs[i], FALSE)])

allScripts ==
    getScriptsFromDirectory(EmbeddedDir, TRUE)
        \o flat([i \in 1..Len(ExternalDirs) |->
                    getScriptsFromDirectory(ExternalDirs[i], FALSE)])

\* a variant that probes the external directories first
directoriesExternalFirst == ExternalDirs \o <<EmbeddedDir>>

\* the directories handed to sortScripts: [embeddedDir, ...externalDirs]
directories == <<EmbeddedDir>> \o ExternalDirs

(***************************************************************************)
(* sortScripts.                                                            *)
(***************************************************************************)
\* the keys of the afters map
aftersKeys(ss) ==
    UNION {{ss[i].after[j] : j \in 1..Len(ss[i].after)} : i \in 1..Len(ss)}

\* afters.get(after): the scripts that name it, in discovery order, once per mention
RECURSIVE aftersGet(_, _)
aftersGet(ss, after) ==
    IF ss = <<>> THEN <<>>
    ELSE LET s == Head(ss)
             mentions == SelectSeq(s.after, LAMBDA a : a = after)
         IN  [k \in 1..Len(mentions) |-> s.absolutePathname] \o aftersGet(Tail(ss), after)

cacheHas(c, after) == \E k \in 1..Len(c) : c[k][1] = after
cacheGet(c, after) == c[CHOOSE k \in 1..Len(c) : c[k][1] = after][2]

\* a variant that takes a path that is no script for the last script
scriptPathToIndexOrLast(ss, path) ==
    LET hits == {i \in 1..Len(ss) : ss[i].absolutePathname = path}
    IN  IF hits = {} THEN Len(ss) ELSE CHOOSE i \in hits : \A j \in hits : j <= i

\* scriptPathToIndex.get(path); 0 stands for undefined
scriptPathToIndex(ss, path) ==
    LET hits == {i \in 1..Len(ss) : ss[i].absolutePathname = path}
    IN  IF hits = {} THEN 0 ELSE CHOOSE i \in hits : \A j \in hits : j <= i

\* the edges <<dependencyIndex, currentIndex>> in the order the graph-building
\* loop pushes them
RECURSIVE edgesFrom(_, _, _, _)
edgesFrom(ss, c, currentIndex, k) ==
    IF currentIndex > Len(ss) THEN <<>>
    ELSE IF k > Len(ss[currentIndex].after) THEN edgesFrom(ss, c, currentIndex + 1, 1)
    ELSE LET after == ss[currentIndex].after[k]
             dependencyIndex ==
                 IF cacheHas(c, after) THEN scriptPathToIndex(ss, cacheGet(c, after)) ELSE 0
         IN  (IF dependencyIndex # 0 THEN <<<<dependencyIndex, currentIndex>>>> ELSE <<>>)
                 \o edgesFrom(ss, c, currentIndex, k + 1)

\* a variant with the edges turned round: the dependent is made the dependency
buildEdgesReversed(ss, c) ==
    LET edges == edgesFrom(ss, c, 1, 1)
    IN  [k \in 1..Len(edges) |-> <<edges[k][2], edges[k][1]>>]

buildEdges(ss, c) == edgesFrom(ss, c, 1, 1)

\* graph.get(index): the dependents, in push order
graphOf(edges, n) ==
    [i \in 1..n |->
        LET mine == SelectSeq(edges, LAMBDA e : e[1] = i)
        IN  [k \in 1..Len(mine) |-> mine[k][2]]]

inDegreeOf(edges, n) ==
    [i \in 1..n |-> Len(SelectSeq(edges, LAMBDA e : e[2] = i))]

\* a variant that also seeds the indices of in-degree 1
seedQueueEarly(inDegree) ==
    SelectSeq([i \in 1..Len(inDegree) |-> i], LAMBDA i : inDegree[i] <= 1)

\* the queue's seed: every index of in-degree 0, in index order
seedQueue(inDegree) ==
    SelectSeq([i \in 1..Len(inDegree) |-> i], LAMBDA i : inDegree[i] = 0)

\* the loop over graph.get(current): decrement, and push at zero
RECURSIVE relax(_, _, _)
relax(dependents, inDegree, queue) ==
    IF dependents = <<>> THEN [inDegree |-> inDegree, queue |-> queue]
    ELSE LET dependent == Head(dependents)
             decremented == [inDegree EXCEPT ![dependent] = @ - 1]
         IN  relax(Tail(dependents), decremented,
                   IF decremented[dependent] = 0 THEN Append(queue, dependent) ELSE queue)

\* a variant that takes from the end, as queue.pop() would
pop(queue) == [current |-> queue[Len(queue)], rest |-> SubSeq(queue, 1, Len(queue) - 1)]

\* queue.shift(): the index taken and the queue left
shift(queue) == [current |-> Head(queue), rest |-> Tail(queue)]

\* the while loop of Kahn's algorithm; the result as indices
RECURSIVE processQueue(_, _, _, _)
processQueue(queue, result, inDegree, graph) ==
    IF queue = <<>> THEN result
    ELSE LET taken == shift(queue)
             after == relax(graph[taken.current], inDegree, taken.rest)
         IN  processQueue(after.queue, Append(result, taken.current), after.inDegree, graph)

\* a variant that leaves the discovery order as it is
unsorted(ss, c) == [i \in 1..Len(ss) |-> i]

kahn(ss, c) ==
    LET edges == buildEdges(ss, c)
        inDegree == inDegreeOf(edges, Len(ss))
    IN  processQueue(seedQueue(inDegree), <<>>, inDegree, graphOf(edges, Len(ss)))

\* a variant without the check
neverCircular(result, ss) == FALSE

\* the check that closes sortScripts
isCircular(result, ss) == Len(result) # Len(ss)

circularError(result, ss) ==
    [kind |-> "CircularDependency", after |-> "",
     scripts |-> [k \in 1..Len(result) |-> ss[result[k]].pathname]]

notFoundError(ss, after) ==
    [kind |-> "AfterNotFound", after |-> after, scripts |-> aftersGet(ss, after)]

(***************************************************************************)
(* The inputs: which script files exist and what each declares 'after'.    *)
(***************************************************************************)
PoolOrder == <<(<<"emb", "a.sh">>), (<<"emb", "b.sh">>), (<<"ext", "a.sh">>), (<<"ext", "c.sh">>),
               (<<"ext2", "a.sh">>), (<<"ext2", "c.sh">>)>>

AfterLists(k) == UNION {[1..n -> AfterNames] : n \in 0..k}

\* the ways to give each path of ps an 'after' list, k names in total at most
RECURSIVE Assign(_, _)
Assign(ps, k) ==
    IF ps = <<>> THEN {<<>>}
    ELSE UNION {{<<l>> \o rest : rest \in Assign(Tail(ps), k - Len(l))} : l \in AfterLists(k)}

DiskOf(ps, lists) ==
    [p \in {ps[i] : i \in 1..Len(ps)} \cup {OtherFile} |->
        IF p = OtherFile THEN [after |-> <<>>, args |-> <<>>, opts |-> <<>>, malformed |-> FALSE]
        ELSE [after |-> lists[CHOOSE i \in 1..Len(ps) : ps[i] = p],
              args |-> <<>>, opts |-> <<>>, malformed |-> FALSE]]

\* the file systems whose scripts are among pool and declare k names at most
Worlds(pool, k) ==
    UNION {{DiskOf(SelectSeq(PoolOrder, LAMBDA p : p \in S), lists) :
                lists \in Assign(SelectSeq(PoolOrder, LAMBDA p : p \in S), k)} :
           S \in SUBSET pool}

Pathnames == {"a.sh", "b.sh", "c.sh"}

PersistedChoices ==
    {p \in UNION {[1..n -> Pathnames] : n \in 0..MaxPersisted} :
        \A i, j \in 1..Len(p) : i # j => p[i] # p[j]}

NoOutcome ==
    [ok |-> FALSE, kind |-> "never", order |-> <<>>, completions |-> <<>>,
     selected |-> <<>>, prompts |-> <<>>]

NoStores == globalArgs = NoValues /\ appOpts = NoValues

\* no add-script-dir or remove-script-dir command has run
NoCommand == [name |-> "", path |-> "", code |-> -1, done |-> ""]

Idle ==
    /\ pc = "start"
    /\ persisted = <<>>
    /\ scripts = <<>>
    /\ stat = <<>>
    /\ cache = <<>>
    /\ sorted = <<>>
    /\ error = NoError
    /\ selected = <<>>
    /\ cursor = 1
    /\ colorIndex = 0
    /\ running = {}
    /\ announced = <<>>
    /\ started = <<>>
    /\ closes = <<>>
    /\ exitCode = -1
    /\ invocation = 1
    /\ previous = NoOutcome
    /\ args = NoValues
    /\ opts = NoValues
    /\ todo = <<>>
    /\ prompts = <<>>
    /\ warnings = <<>>
    /\ probes = <<>>
    /\ envs = <<>>
    /\ writes = <<>>
    /\ chunks = <<>>
    /\ emitted = <<>>
    /\ scriptDirs = <<>>
    /\ command = NoCommand

\* main is about to start, and no store instance has been created
Rest == Idle /\ NoConfig /\ wrapper = NoWrapper

\* an invocation of main: a first one, with nothing persisted, or a --replay
\* of some persisted selection
Init ==
    /\ disk \in Worlds(RunPool, MaxAfterRun)
    /\ unreadable = {}
    /\ replay \in BOOLEAN
    /\ appSelected \in PersistedChoices
    /\ ~replay => appSelected = <<>>
    /\ NoStores
    /\ Rest

InitSort ==
    /\ disk \in Worlds(Pool, MaxAfter)
    /\ unreadable = {}
    /\ replay = FALSE
    /\ appSelected = <<>>
    /\ NoStores
    /\ Rest

(***************************************************************************)
(* getScripts and sortScripts, step by step.                               *)
(***************************************************************************)
\* main up to the first await of sortScripts: the persisted selection is read,
\* the directories are listed, and one resolution task per 'after' name starts
Begin ==
    /\ pc = "start"
    /\ persisted' = appSelected
    /\ scripts' = allScripts
    /\ stat' = [a \in aftersKeys(allScripts) |-> 1]
    /\ cache' = <<>>
    /\ pc' = "sorting"
    /\ UNCHANGED <<paramVars, diskVars, configVars, wrapper, dirVars, outputVars, replay, appSelected, sorted, error, runVars, exitCode,
                   invocation, previous>>

\* a variant in which a name that no directory holds is passed over in silence
StatDoneLenient(after) ==
    /\ pc = "sorting"
    /\ after \in DOMAIN stat
    /\ stat[after] # 0
    /\ LET absolutePathname == path_join(directories[stat[after]], after)
           exists == absolutePathname \in DOMAIN disk
       IN  IF exists
           THEN /\ cache' = Append(cache, <<after, absolutePathname>>)
                /\ stat' = [stat EXCEPT ![after] = 0]
           ELSE /\ stat' = [stat EXCEPT ![after] =
                                IF @ < Len(directories) THEN @ + 1 ELSE 0]
                /\ UNCHANGED cache
    /\ UNCHANGED <<paramVars, diskVars, configVars, wrapper, dirVars, outputVars, replay, appSelected, pc, persisted, scripts, sorted, error,
                   runVars, exitCode, invocation, previous>>

\* a variant that asks every directory at once and takes the first answer
StatDoneRace(after) ==
    /\ pc = "sorting"
    /\ after \in DOMAIN stat
    /\ stat[after] # 0
    /\ IF \E i \in 1..Len(directories) : path_join(directories[i], after) \in DOMAIN disk
       THEN /\ \E i \in 1..Len(directories) :
                  /\ path_join(directories[i], after) \in DOMAIN disk
                  /\ cache' = Append(cache, <<after, path_join(directories[i], after)>>)
            /\ stat' = [stat EXCEPT ![after] = 0]
            /\ UNCHANGED <<pc, error, exitCode>>
       ELSE /\ stat' = [stat EXCEPT ![after] = 0]
            /\ error' = notFoundError(scripts, after)
            /\ pc' = "failed"
            /\ exitCode' = 1
            /\ UNCHANGED cache
    /\ UNCHANGED <<paramVars, diskVars, configVars, wrapper, dirVars, outputVars, replay, appSelected, persisted, scripts, sorted, runVars,
                   invocation, previous>>

\* one fs.stat of the task of 'after' settles
StatDone(after) ==
    /\ pc = "sorting"
    /\ after \in DOMAIN stat
    /\ stat[after] # 0
    /\ LET absolutePathname == path_join(directories[stat[after]], after)
           exists == absolutePathname \in DOMAIN disk
       IN  IF exists
           THEN /\ cache' = Append(cache, <<after, absolutePathname>>)
                /\ stat' = [stat EXCEPT ![after] = 0]
                /\ UNCHANGED <<pc, error, exitCode>>
           ELSE IF stat[after] < Len(directories)
           THEN /\ stat' = [stat EXCEPT ![after] = @ + 1]
                /\ UNCHANGED <<cache, pc, error, exitCode>>
           ELSE \* no directory holds it: the task throws, Promise.all rejects,
                \* and main's catch rethrows
                /\ stat' = [stat EXCEPT ![after] = 0]
                /\ error' = notFoundError(scripts, after)
                /\ pc' = "failed"
                /\ exitCode' = 1
                /\ UNCHANGED cache
    /\ UNCHANGED <<paramVars, diskVars, configVars, wrapper, dirVars, outputVars, replay, appSelected, persisted, scripts, sorted, runVars,
                   invocation, previous>>

\* every task has settled: the graph is built and sorted
SortFinish ==
    /\ pc = "sorting"
    /\ \A a \in DOMAIN stat : stat[a] = 0
    /\ LET result == kahn(scripts, cache)
       IN  IF isCircular(result, scripts)
           THEN /\ error' = circularError(result, scripts)
                /\ pc' = "failed"
                /\ exitCode' = 1
                /\ UNCHANGED sorted
           ELSE /\ sorted' = [k \in 1..Len(result) |-> scripts[result[k]]]
                /\ pc' = "select"
                /\ UNCHANGED <<error, exitCode>>
    /\ UNCHANGED <<paramVars, diskVars, configVars, wrapper, dirVars, outputVars, replay, appSelected, persisted, scripts, stat, cache, runVars,
                   invocation, previous>>

\* what an invocation came to: the resolver's result, the order in which its
\* resolution tasks completed, the selection and the prompts shown
Outcome ==
    IF pc = "failed"
    THEN [ok |-> FALSE, kind |-> error.kind, order |-> <<>>, completions |-> cache,
          selected |-> <<>>, prompts |-> prompts]
    ELSE [ok |-> TRUE, kind |-> "none",
          order |-> [k \in 1..Len(sorted) |-> sorted[k].absolutePathname],
          completions |-> cache,
          selected |-> [k \in 1..Len(selected) |-> selected[k].absolutePathname],
          prompts |-> prompts]

\* the resolver is invoked again on the same files
Again ==
    /\ pc \in {"select", "failed"}
    /\ invocation < MaxInvocations
    /\ previous' = Outcome
    /\ invocation' = invocation + 1
    /\ pc' = "start"
    /\ scripts' = <<>>
    /\ stat' = <<>>
    /\ cache' = <<>>
    /\ sorted' = <<>>
    /\ error' = NoError
    /\ exitCode' = -1
    /\ UNCHANGED <<paramVars, diskVars, configVars, wrapper, dirVars, outputVars, replay, appSelected, persisted, runVars>>

NextSort ==
    \/ Begin
    \/ \E after \in AfterNames : StatDone(after)
    \/ SortFinish

SpecSort == InitSort /\ [][NextSort]_vars

\* the resolver on inputs in which several directories hold the same name
(***************************************************************************)
(* Discovery over directories that cannot be read and files whose          *)
(* '@vercel.opt' line cannot be parsed.                                    *)
(***************************************************************************)
\* the 'after' names declared by all the scripts of such an input
MaxAfterDiscover == 1
\* the files with a malformed '@vercel.opt' line
MaxMalformed == 1
\* the directories that cannot be read
MaxUnreadable == 1

\* the file system d with the files of M malformed
Spoil(d, M) == [p \in DOMAIN d |-> [d[p] EXCEPT !.malformed = p \in M]]

DiscoverWorlds ==
    UNION {{Spoil(d, M) : M \in {T \in SUBSET DOMAIN d : Cardinality(T) <= MaxMalformed}} :
              d \in Worlds(Pool, MaxAfterDiscover)}

InitDiscover ==
    /\ disk \in DiscoverWorlds
    /\ unreadable \in {U \in SUBSET {directories[i] : i \in 1..Len(directories)} :
                          Cardinality(U) <= MaxUnreadable}
    /\ replay = FALSE
    /\ appSelected = <<>>
    /\ NoStores
    /\ Rest

SpecDiscover == InitDiscover /\ [][NextSort]_vars

InitResolve ==
    /\ disk \in Worlds(ResolvePool, MaxAfterResolve)
    /\ unreadable = {}
    /\ replay = FALSE
    /\ appSelected = <<>>
    /\ NoStores
    /\ Rest

SpecResolve == InitResolve /\ [][NextSort]_vars

InitTwice ==
    /\ disk \in Worlds(Pool, MaxAfterTwice)
    /\ unreadable = {}
    /\ replay = FALSE
    /\ appSelected = <<>>
    /\ NoStores
    /\ Rest

NextTwice ==
    \/ Begin
    \/ \E after \in AfterNames : StatDone(after)
    \/ SortFinish
    \/ Again

SpecTwice == InitTwice /\ [][NextTwice]_vars

(***************************************************************************)
(* main: selection.                                                        *)
(***************************************************************************)
includes(list, x) == \E i \in 1..Len(list) : list[i] = x

\* a variant that walks the persisted list instead of the scripts
replayInPersistedOrder(ss, p) ==
    flat([k \in 1..Len(p) |-> SelectSeq(ss, LAMBDA script : script.pathname = p[k])])

\* a variant that replays every script there is
replayEverything(ss, p) == ss

\* --replay: scripts.filter((script) => persisted.includes(script.pathname))
replaySelection(ss, p) == SelectSeq(ss, LAMBDA script : includes(p, script.pathname))

\* Checkbox.prompt: the options that are checked when the user confirms, in the
\* order of the options
promptSelection(ss, checked) ==
    LET at == SelectSeq([i \in 1..Len(ss) |-> i], LAMBDA i : i \in checked)
    IN  [k \in 1..Len(at) |-> ss[at[k]]]

\* selected.map((s) => s.pathname)
pathnames(ss) == [i \in 1..Len(ss) |-> ss[i].pathname]

\* the steps of the two loops of parameter resolution over the selection:
\* for each script its args, then its opts
\* a variant that walks a script's opts before its args
itemsOfOptsFirst(ss, i) ==
    [k \in 1..Len(ss[i].opts) |-> [script |-> i, kind |-> "opt", k |-> k]]
        \o [k \in 1..Len(ss[i].args) |-> [script |-> i, kind |-> "arg", k |-> k]]

itemsOf(ss, i) ==
    [k \in 1..Len(ss[i].args) |-> [script |-> i, kind |-> "arg", k |-> k]]
        \o [k \in 1..Len(ss[i].opts) |-> [script |-> i, kind |-> "opt", k |-> k]]

paramItems(ss) == flat([i \in 1..Len(ss) |-> itemsOf(ss, i)])

\* a variant that does not persist the selection
SelectUnsaved ==
    /\ pc = "select"
    /\ \E checked \in SUBSET (1..Len(sorted)) :
          /\ selected' = IF replay THEN replaySelection(sorted, persisted)
                                   ELSE promptSelection(sorted, checked)
          /\ replay => checked = {}
    /\ prompts' = IF replay THEN prompts
                  ELSE Append(prompts, [kind |-> "Checkbox", name |-> ""])
    /\ args' = globalArgs
    /\ opts' = appOpts
    /\ todo' = paramItems(selected')
    /\ pc' = "params"
    /\ UNCHANGED <<storeVars, appSelected, warnings, probes, envs, diskVars, configVars, wrapper, dirVars, outputVars, replay, persisted,
                   sortVars, cursor, colorIndex, running, announced, started, closes,
                   exitCode, invocation, previous>>

\* getScripts has returned: the selection is made (asked for unless --replay)
\* and persisted, and the two stores are read
Select ==
    /\ pc = "select"
    /\ \E checked \in SUBSET (1..Len(sorted)) :
          /\ selected' = IF replay THEN replaySelection(sorted, persisted)
                                   ELSE promptSelection(sorted, checked)
          /\ replay => checked = {}
    /\ prompts' = IF replay THEN prompts
                  ELSE Append(prompts, [kind |-> "Checkbox", name |-> ""])
    /\ appSelected' = pathnames(selected')
    /\ writes' = Append(writes, [store |-> "app", key |-> "selected"])
    /\ args' = globalArgs
    /\ opts' = appOpts
    /\ todo' = paramItems(selected')
    /\ pc' = "params"
    /\ UNCHANGED <<globalArgs, appOpts, warnings, probes, envs, diskVars, configVars, wrapper, dirVars, outputVars, replay, persisted, sortVars,
                   cursor, colorIndex, running, announced, started, closes, exitCode,
                   invocation, previous>>

(***************************************************************************)
(* main: parameter resolution.                                             *)
(***************************************************************************)
\* what the user may answer to Input.prompt; an empty line stands for the
\* default, os.homedir()
InputAnswers == {"/repo", "/plain"}

\* execSync("git worktree list --porcelain", {cwd: baseDir}): it throws where
\* there is no repository; in /repo it prints one complete entry and one
\* without a HEAD line
git_worktree_list(baseDir) ==
    IF baseDir = "/repo"
    THEN [ok |-> TRUE, output |-> <<[path |-> "/repo-wt", HEAD |-> "abc"],
                                    [path |-> "/repo-bare", HEAD |-> ""]>>]
    ELSE [ok |-> FALSE, output |-> <<>>]

\* the entries that have a path and a HEAD
parseWorktrees(output) ==
    LET whole == SelectSeq(output, LAMBDA w : w.path # "" /\ w.HEAD # "")
    IN  [i \in 1..Len(whole) |-> [path |-> whole[i].path]]

\* a variant without the catch: the base directory is all it has to offer
listWorktreesUncaught(baseDir) ==
    IF git_worktree_list(baseDir).ok THEN parseWorktrees(git_worktree_list(baseDir).output)
    ELSE <<[path |-> baseDir]>>

\* listWorktrees(baseDir): what git lists there, [] where the command fails
listWorktrees(baseDir) ==
    IF git_worktree_list(baseDir).ok THEN parseWorktrees(git_worktree_list(baseDir).output)
    ELSE <<>>

\* a variant that takes every argument for missing
argNeverKnown(a, name) == FALSE

\* if (args[arg.name]) continue
argKnown(a, name) == truthy(a, name)

\* one turn of the loop over script.args
ResolveArg ==
    /\ pc = "params"
    /\ todo # <<>>
    /\ Head(todo).kind = "arg"
    /\ LET arg == selected[Head(todo).script].args[Head(todo).k]
       IN  IF argKnown(args, arg.name)
           THEN UNCHANGED <<args, prompts>>
           ELSE \E value \in InputAnswers :
                   /\ prompts' = Append(prompts, [kind |-> "Input", name |-> arg.name])
                   /\ args' = (arg.name :> Str(value)) @@ args
    /\ todo' = Tail(todo)
    /\ UNCHANGED <<storeVars, opts, warnings, probes, envs, diskVars, configVars, wrapper, dirVars, outputVars, replay, appSelected, pc,
                   persisted, sortVars, runVars, exitCode, invocation, previous>>

\* a variant that takes a stored false for missing
optKnownTruthy(o, name) == truthy(o, name)

\* if (opts[opt.name] !== undefined) continue
optKnown(o, name) == name \in DOMAIN o

\* a variant that takes whatever the store holds, nothing included
baseDirAny(a, name) == TRUE

\* the test on baseDir = args[opt.baseDirArg]: a non-empty string
baseDirSet(a, name) == truthy(a, name) /\ a[name].type = "string"

baseDirOf(a, name) == IF name \in DOMAIN a THEN a[name].str ELSE ""

\* a variant that asks whatever was found
alwaysPrompt(worktrees, opt) == TRUE

\* worktrees.length > 0 || !opt.optional
shouldPrompt(worktrees, opt) == Len(worktrees) > 0 \/ ~opt.optional

\* the values Select.prompt offers
choices(worktrees) ==
    {Null} \cup {Str(worktrees[k].path) : k \in 1..Len(worktrees)}

\* one turn of the loop over script.opts
ResolveOpt ==
    /\ pc = "params"
    /\ todo # <<>>
    /\ Head(todo).kind = "opt"
    /\ LET opt == selected[Head(todo).script].opts[Head(todo).k]
       IN  IF optKnown(opts, opt.name)
           THEN UNCHANGED <<opts, prompts, warnings, probes>>
           ELSE IF opt.type = "boolean"
           THEN /\ \E value \in BOOLEAN :
                      /\ prompts' = Append(prompts, [kind |-> "Confirm", name |-> opt.name])
                      /\ opts' = (opt.name :> Bool(value)) @@ opts
                /\ UNCHANGED <<warnings, probes>>
           ELSE IF opt.type = "worktree"
           THEN IF opt.baseDirArg = "" \/ ~baseDirSet(args, opt.baseDirArg)
                THEN /\ warnings' = Append(warnings, opt.name)
                     /\ UNCHANGED <<opts, prompts, probes>>
                ELSE LET baseDir == baseDirOf(args, opt.baseDirArg)
                         worktrees == listWorktrees(baseDir)
                     IN  /\ probes' = Append(probes, baseDir)
                         /\ IF shouldPrompt(worktrees, opt)
                            THEN \E value \in choices(worktrees) :
                                    /\ prompts' = Append(prompts,
                                                     [kind |-> "Select", name |-> opt.name])
                                    /\ opts' = (opt.name :> value) @@ opts
                            ELSE UNCHANGED <<opts, prompts>>
                         /\ UNCHANGED warnings
           ELSE \* no branch for any other type
                UNCHANGED <<opts, prompts, warnings, probes>>
    /\ todo' = Tail(todo)
    /\ UNCHANGED <<storeVars, args, envs, diskVars, configVars, wrapper, dirVars, outputVars, replay, appSelected, pc, persisted,
                   sortVars, runVars, exitCode, invocation, previous>>

\* a variant that calls set only in a run that asked for a parameter
setCallsIfAsked(a, o) ==
    IF \A k \in 1..Len(prompts) : prompts[k].kind = "Checkbox" THEN <<>>
    ELSE (IF DOMAIN a # {} THEN <<[store |-> "global", key |-> "args"]>> ELSE <<>>)
            \o (IF DOMAIN o # {} THEN <<[store |-> "app", key |-> "opts"]>> ELSE <<>>)

\* a variant that calls set for a store without keys as well
setCallsAlways(a, o) ==
    <<[store |-> "global", key |-> "args"], [store |-> "app", key |-> "opts"]>>

\* the calls of set that end parameter resolution: config.global.set("args", args)
\* if Object.keys(args).length > 0, then config.app.set("opts", opts) likewise
setCalls(a, o) ==
    (IF DOMAIN a # {} THEN <<[store |-> "global", key |-> "args"]>> ELSE <<>>)
        \o (IF DOMAIN o # {} THEN <<[store |-> "app", key |-> "opts"]>> ELSE <<>>)

\* a variant that writes the arguments only
PersistArgsOnly ==
    /\ pc = "params"
    /\ todo = <<>>
    /\ globalArgs' = IF DOMAIN args # {} THEN args ELSE globalArgs
    /\ writes' = writes \o setCalls(args, NoValues)
    /\ pc' = "loop"
    /\ UNCHANGED <<appOpts, resolveVars, envs, diskVars, configVars, wrapper, dirVars, outputVars, replay, appSelected, persisted,
                   sortVars, runVars, exitCode, invocation, previous>>

\* the loops are over: what the stores hold is written to the two files
Persist ==
    /\ pc = "params"
    /\ todo = <<>>
    /\ globalArgs' = IF DOMAIN args # {} THEN args ELSE globalArgs
    /\ appOpts' = IF DOMAIN opts # {} THEN opts ELSE appOpts
    /\ writes' = writes \o setCalls(args, opts)
    /\ pc' = "loop"
    /\ UNCHANGED <<resolveVars, envs, diskVars, configVars, wrapper, dirVars, outputVars, replay, appSelected, persisted, sortVars,
                   runVars, exitCode, invocation, previous>>

(***************************************************************************)
(* main: the run loop.                                                     *)
(***************************************************************************)
\* availableColors.length
NumColors == 6

\* process.env
ProcessEnv == ("PATH" :> "/bin")

\* a variant that writes null as well
writtenAlways(value) == TRUE

\* what is written to env: a string or a boolean
written(value) == value.type \in {"string", "boolean"}

\* the loop over script.args, and the one over script.opts
RECURSIVE overlay(_, _, _)
overlay(env, declared, store) ==
    IF declared = <<>> THEN env
    ELSE LET name == Head(declared).name
         IN  overlay(IF name \in DOMAIN store /\ written(store[name])
                     THEN (name :> (IF store[name].type = "boolean"
                                    THEN toString(store[name].bool)
                                    ELSE store[name].str)) @@ env
                     ELSE env,
                     Tail(declared), store)

\* { ...process.env } overlaid with the script's args, then with its opts
envOf(script, a, o) == overlay(overlay(ProcessEnv, script.args, a), script.opts, o)

\* the head of an iteration: the script is announced and its environment built
Announce ==
    /\ pc = "loop"
    /\ cursor <= Len(selected)
    /\ announced' = Append(announced, selected[cursor].absolutePathname)
    /\ envs' = Append(envs, envOf(selected[cursor], args, opts))
    /\ pc' = "prepare"
    /\ UNCHANGED <<storeVars, resolveVars, diskVars, configVars, wrapper, dirVars, outputVars, replay, appSelected, persisted, sortVars,
                   selected, cursor, colorIndex, running, started, closes, exitCode,
                   invocation, previous>>

\* a variant that does not await the close of the child
SpawnNoWait ==
    /\ pc = "prepare"
    /\ running' = running \cup {cursor}
    /\ started' = Append(started, selected[cursor].absolutePathname)
    /\ cursor' = cursor + 1
    /\ pc' = "loop"
    /\ UNCHANGED <<paramVars, diskVars, configVars, wrapper, dirVars, outputVars, replay, appSelected, persisted, sortVars, selected,
                   colorIndex, announced, closes, exitCode, invocation, previous>>

\* prepareScript has returned: the child is spawned and its close awaited
Spawn ==
    /\ pc = "prepare"
    /\ running' = running \cup {cursor}
    /\ started' = Append(started, selected[cursor].absolutePathname)
    /\ pc' = "wait"
    /\ UNCHANGED <<paramVars, diskVars, configVars, wrapper, dirVars, outputVars, replay, appSelected, persisted, sortVars, selected, cursor,
                   colorIndex, announced, closes, exitCode, invocation, previous>>

\* a variant that resolves whatever the code
CloseAlwaysResolve(child, code) ==
    /\ pc \notin {"exited", "failed"}
    /\ child \in running
    /\ running' = running \ {child}
    /\ closes' = Append(closes, <<selected[child].absolutePathname, code>>)
    /\ cursor' = cursor + 1
    /\ colorIndex' = (colorIndex + 1) % NumColors
    /\ pc' = "loop"
    /\ UNCHANGED <<paramVars, diskVars, configVars, wrapper, dirVars, outputVars, replay, appSelected, persisted, sortVars, selected,
                   announced, started, exitCode, invocation, previous>>

\* the close handler of a child: resolve on 0, process.exit(code) otherwise
Close(child, code) ==
    /\ pc \notin {"exited", "failed"}
    /\ child \in running
    /\ running' = running \ {child}
    /\ closes' = Append(closes, <<selected[child].absolutePathname, code>>)
    /\ IF code = 0
       THEN \* the awaited promise resolves and the iteration ends
            /\ cursor' = cursor + 1
            /\ colorIndex' = (colorIndex + 1) % NumColors
            /\ pc' = "loop"
            /\ UNCHANGED exitCode
       ELSE /\ exitCode' = code
            /\ pc' = "exited"
            /\ UNCHANGED <<cursor, colorIndex>>
    /\ UNCHANGED <<paramVars, diskVars, configVars, wrapper, dirVars, outputVars, replay, appSelected, persisted, sortVars, selected,
                   announced, started, invocation, previous>>

\* a variant whose loop ends one script early
ReturnEarly ==
    /\ pc = "loop"
    /\ cursor >= Len(selected)
    /\ exitCode' = 0
    /\ pc' = "exited"
    /\ UNCHANGED <<paramVars, diskVars, configVars, wrapper, dirVars, outputVars, replay, appSelected, persisted, sortVars, runVars,
                   invocation, previous>>

\* the loop is over: main resolves and the process ends
Return ==
    /\ pc = "loop"
    /\ cursor > Len(selected)
    /\ exitCode' = 0
    /\ pc' = "exited"
    /\ UNCHANGED <<paramVars, diskVars, configVars, wrapper, dirVars, outputVars, replay, appSelected, persisted, sortVars, runVars,
                   invocation, previous>>

\* main on scripts that declare neither an argument nor an option
Next ==
    \/ Begin
    \/ \E after \in AfterNames : StatDone(after)
    \/ SortFinish
    \/ Select
    \/ Persist
    \/ Announce
    \/ Spawn
    \/ \E child \in 1..Len(selected), code \in 0..MaxExitCode : Close(child, code)
    \/ Return

Spec == Init /\ [][Next]_vars

(***************************************************************************)
(* main on scripts that declare arguments and options.                     *)
(***************************************************************************)
\* the arguments and options declared by all the scripts of an input, in total
MaxDecl == 2

ParamPool == <<(<<"emb", "a.sh">>), (<<"emb", "b.sh">>)>>

ArgMenu == {[name |-> "DIR"]}

OptMenu ==
    {[name |-> "MODE", type |-> "boolean", baseDirArg |-> "", optional |-> FALSE],
     [name |-> "ADDR", type |-> "string", baseDirArg |-> "", optional |-> FALSE]}
        \cup {[name |-> "WT", type |-> "worktree", baseDirArg |-> "DIR", optional |-> b] :
                  b \in BOOLEAN}

\* what one script may declare, n names at most
DeclChoices(n) ==
    {d \in [args : UNION {[1..m -> ArgMenu] : m \in 0..1},
            opts : UNION {[1..m -> OptMenu] : m \in 0..n}] :
        /\ Len(d.args) + Len(d.opts) <= n
        /\ \A i, j \in 1..Len(d.opts) : i # j => d.opts[i].name # d.opts[j].name}

\* a.sh and b.sh in the bundled directory, b.sh to run after a.sh
ParamDisk(da, db) ==
    (ParamPool[1] :> [after |-> <<>>, args |-> da.args, opts |-> da.opts,
                      malformed |-> FALSE])
        @@ (ParamPool[2] :> [after |-> <<"a.sh">>, args |-> db.args, opts |-> db.opts,
                             malformed |-> FALSE])

ParamWorlds ==
    UNION {{ParamDisk(da, db) : db \in DeclChoices(MaxDecl - Len(da.args) - Len(da.opts))} :
              da \in DeclChoices(MaxDecl)}

\* what the two files may hold when main starts
ArgStores == {NoValues} \cup {("DIR" :> v) : v \in {Str("/repo"), Bool(FALSE), Bool(TRUE)}}
OptStores == {NoValues} \cup {("MODE" :> Bool(b)) : b \in BOOLEAN} \cup {("WT" :> Null)}

\* a first run, or a --replay of a persisted selection of both scripts
InitParams ==
    /\ disk \in ParamWorlds
    /\ unreadable = {}
    /\ replay \in BOOLEAN
    /\ appSelected = IF replay THEN <<"a.sh", "b.sh">> ELSE <<>>
    /\ globalArgs \in ArgStores
    /\ appOpts \in OptStores
    /\ Rest

NextParams ==
    \/ Next
    \/ ResolveArg
    \/ ResolveOpt

SpecParams == InitParams /\ [][NextParams]_vars

\* main is started again, with --replay, on the files the run left
Rerun ==
    /\ pc = "exited"
    /\ invocation < MaxInvocations
    /\ previous' = Outcome
    /\ invocation' = invocation + 1
    /\ replay' = TRUE
    /\ pc' = "start"
    /\ persisted' = <<>>
    /\ scripts' = <<>>
    /\ stat' = <<>>
    /\ cache' = <<>>
    /\ sorted' = <<>>
    /\ error' = NoError
    /\ selected' = <<>>
    /\ cursor' = 1
    /\ colorIndex' = 0
    /\ running' = {}
    /\ announced' = <<>>
    /\ started' = <<>>
    /\ closes' = <<>>
    /\ exitCode' = -1
    /\ args' = NoValues
    /\ opts' = NoValues
    /\ todo' = <<>>
    /\ prompts' = <<>>
    /\ warnings' = <<>>
    /\ probes' = <<>>
    /\ envs' = <<>>
    /\ writes' = <<>>
    /\ UNCHANGED <<diskVars, configVars, wrapper, dirVars, outputVars, appSelected, globalArgs, appOpts>>

\* a first run with nothing stored, and the runs after it
InitRerun ==
    /\ disk \in ParamWorlds
    /\ unreadable = {}
    /\ replay = FALSE
    /\ appSelected = <<>>
    /\ NoStores
    /\ Rest

NextRerun ==
    \/ NextParams
    \/ Rerun

SpecRerun == InitRerun /\ [][NextRerun]_vars

(***************************************************************************)
(* main on scripts without parameters, and a --replay of it.               *)
(***************************************************************************)
\* the 'after' names declared by all the scripts of a replayed input
MaxAfterReplay == 1

\* a first run with nothing persisted, which a --replay follows
InitReplay ==
    /\ disk \in Worlds(RunPool, MaxAfterReplay)
    /\ unreadable = {}
    /\ replay = FALSE
    /\ appSelected = <<>>
    /\ NoStores
    /\ Rest

NextReplay ==
    \/ Next
    \/ Rerun

SpecReplay == InitReplay /\ [][NextReplay]_vars

(***************************************************************************)
(* createConfig on its own: instances of a store over one file, each a     *)
(* process that gets and sets.                                             *)
(***************************************************************************)
\* the keys a stored record has at most
MaxStored == 2

StoredValues == {Str("/repo-wt"), Bool(TRUE), Bool(FALSE), Null}

\* the records set("opts", ...) is called with
StoredRecords ==
    UNION {[S -> StoredValues] :
              S \in {T \in SUBSET {NameOrder[i] : i \in 1..Len(NameOrder)} :
                        Cardinality(T) <= MaxStored}}

\* the arrays set("selected", ...) is called with
StoredSelections == {<<>>, <<"a.sh">>, <<"a.sh", "b.sh">>}

StoredOf(key) == IF key = "selected" THEN StoredSelections ELSE StoredRecords

\* the files a first instance may find: none, or one that lacks a key
InitialFiles ==
    {NoFile}
        \cup {[exists |-> TRUE, json |-> JSON_stringify([selected |-> s])] :
                 s \in StoredSelections}
        \cup {[exists |-> TRUE, json |-> JSON_stringify([opts |-> r])] :
                 r \in {NoValues, ("MODE" :> Bool(TRUE))}}

mainVars == <<diskVars, outputVars, replay, appSelected, pc, persisted, sortVars, runVars, exitCode,
              invocation, previous, paramVars>>

InitStore ==
    /\ disk \in Worlds({}, 0)
    /\ unreadable = {}
    /\ replay = FALSE
    /\ appSelected = <<>>
    /\ NoStores
    /\ Idle
    /\ jsonFile \in InitialFiles
    /\ instance = NoCache
    /\ got = NoGot
    /\ put = [done |-> FALSE, cache |-> loadConfigFile(jsonFile)]
    /\ wrapper = NoWrapper

\* store.set(key, value): the cache is loaded if need be, changed and written
ConfigSet(key, value) ==
    /\ instance' = [loaded |-> TRUE, cache |-> assign(cacheOf(instance, jsonFile), key, value),
                    setter |-> TRUE]
    /\ jsonFile' = [exists |-> TRUE, json |-> JSON_stringify(instance'.cache)]
    /\ put' = [done |-> TRUE, cache |-> instance'.cache]
    /\ got' = NoGot
    /\ UNCHANGED <<mainVars, dirVars, wrapper>>

\* store.get(key)
ConfigGet(key) ==
    /\ instance' = [instance EXCEPT !.loaded = TRUE, !.cache = cacheOf(instance, jsonFile)]
    /\ got' = [key |-> key, value |-> get(instance, jsonFile, key), fresh |-> ~instance.setter]
    /\ UNCHANGED <<jsonFile, put, mainVars, dirVars, wrapper>>

\* the process ends; the next one calls createConfig on the same file
ConfigFresh ==
    /\ instance # NoCache
    /\ instance' = NoCache
    /\ got' = NoGot
    /\ UNCHANGED <<jsonFile, put, mainVars, dirVars, wrapper>>

NextStore ==
    \/ \E key \in DOMAIN defaults : \E value \in StoredOf(key) : ConfigSet(key, value)
    \/ \E key \in DOMAIN defaults : ConfigGet(key)
    \/ ConfigFresh

SpecStore == InitStore /\ [][NextStore]_vars

(***************************************************************************)
(* runtime.sh, as main spawns it: with the environment main built, and the *)
(* pathname of a script as its argument. The script is told by how it      *)
(* ends: with 'exit code', or by coming to its end (or 'return') with      *)
(* status code, the errexit option of 'set -e' being on still or not.      *)
(***************************************************************************)
Targets == [isFile : BOOLEAN, how : {"exit", "end"}, code : 0..MaxExitCode, errexit : BOOLEAN]

\* the files a redirection can create
WritablePaths == {"/tmp/env"}

\* what process.env may hold of the variables runtime.sh reads; main adds none
RuntimeEnvs ==
    {ProcessEnv @@ pre @@ post @@ debug :
        pre \in {<<>>} \cup {("VSS_PRE_ENV_FILE" :> p) : p \in {"/tmp/env", "/nodir/env"}},
        post \in {<<>>} \cup {("VSS_POST_ENV_FILE" :> p) : p \in {"/tmp/env", "/nodir/env"}},
        debug \in {<<>>, ("VSS_DEBUG" :> "1")}}

\* > "$NAME" succeeds
redirects(env, name) == name \in DOMAIN env /\ env[name] \in WritablePaths

\* the shell exits
exits(code) == [wrapper EXCEPT !.at = "done", !.status = code]

InitRuntime ==
    /\ disk \in Worlds({}, 0)
    /\ unreadable = {}
    /\ replay = FALSE
    /\ appSelected = <<>>
    /\ NoStores
    /\ Idle
    /\ NoConfig
    /\ wrapper \in [target : Targets, env : RuntimeEnvs, at : {"check"}, status : {-1},
                    sourced : {FALSE}]

\* lines 5-19: the argument is there; it must be a regular file
RuntimeCheck ==
    /\ wrapper.at = "check"
    /\ wrapper' = IF wrapper.target.isFile THEN [wrapper EXCEPT !.at = "pre"] ELSE exits(1)
    /\ UNCHANGED <<mainVars, dirVars, configVars>>

\* lines 45-51: export -p | grep | sort > "$VSS_PRE_ENV_FILE", under set -e
RuntimePre ==
    /\ wrapper.at = "pre"
    /\ wrapper' = IF redirects(wrapper.env, "VSS_PRE_ENV_FILE")
                  THEN [wrapper EXCEPT !.at = "source"]
                  ELSE exits(1)
    /\ UNCHANGED <<mainVars, dirVars, configVars>>

\* line 54: . "${SCRIPT_PATHNAME}"
RuntimeSource ==
    /\ wrapper.at = "source"
    /\ wrapper' =
          IF wrapper.target.how = "exit" \/ (wrapper.target.code # 0 /\ wrapper.target.errexit)
          THEN [exits(wrapper.target.code) EXCEPT !.sourced = TRUE]
          ELSE [wrapper EXCEPT !.at = "post", !.sourced = TRUE]
    /\ UNCHANGED <<mainVars, dirVars, configVars>>

\* lines 56-64: export -p | grep | sort > "$VSS_POST_ENV_FILE", the debug
\* output, and the end of the file
RuntimePost ==
    /\ wrapper.at = "post"
    /\ wrapper' =
          IF redirects(wrapper.env, "VSS_POST_ENV_FILE") THEN exits(0)
          ELSE IF wrapper.target.errexit \/ "VSS_DEBUG" \in DOMAIN wrapper.env THEN exits(1)
          ELSE exits(0)
    /\ UNCHANGED <<mainVars, dirVars, configVars>>

NextRuntime ==
    \/ RuntimeCheck
    \/ RuntimePre
    \/ RuntimeSource
    \/ RuntimePost

SpecRuntime == InitRuntime /\ [][NextRuntime]_vars

(***************************************************************************)
(* The output of the children: the data handlers of stdout and stderr.     *)
(***************************************************************************)
\* the data chunks a run delivers, in total
MaxChunks == 2

NL == "\n"
White == {" ", NL}

\* what a pipe may hand over at once: part of a line, the rest of a line, a
\* line, two lines, a bare newline, an indented line, a line and an empty line
DataMenu ==
    {<<"x">>, <<"y", NL>>, <<"x", NL>>, <<"x", NL, "y", NL>>, <<NL>>,
     <<" ", "x", NL>>, <<"x", NL, NL>>}

Streams == {"stdout", "stderr"}

\* String.prototype.trim
RECURSIVE trimStart(_)
trimStart(s) == IF s # <<>> /\ Head(s) \in White THEN trimStart(Tail(s)) ELSE s

RECURSIVE trimEnd(_)
trimEnd(s) ==
    IF s # <<>> /\ s[Len(s)] \in White THEN trimEnd(SubSeq(s, 1, Len(s) - 1)) ELSE s

trim(s) == trimEnd(trimStart(s))

\* String.prototype.split("\n")
RECURSIVE split(_)
split(s) ==
    IF \A i \in 1..Len(s) : s[i] # NL THEN <<s>>
    ELSE LET i == CHOOSE i \in 1..Len(s) : s[i] = NL /\ \A j \in 1..(i - 1) : s[j] # NL
         IN  <<SubSeq(s, 1, i - 1)>> \o split(SubSeq(s, i + 1, Len(s)))

\* what one data callback logs: data.toString().trim().split("\n"), each line
\* behind the tag of the script
logLines(tag, stream, data) ==
    LET lines == split(trim(data))
    IN  [k \in 1..Len(lines) |-> [tag |-> tag, stream |-> stream, line |-> lines[k]]]

\* a data event of a child's stdout or stderr; main is at an await
Data(child, stream, data) ==
    /\ pc \in {"prepare", "wait"}
    /\ child \in running
    /\ Len(chunks) < MaxChunks
    /\ chunks' = Append(chunks, [child |-> child, stream |-> stream, data |-> data])
    /\ emitted' = emitted \o logLines(selected[child].pathname, stream, data)
    /\ UNCHANGED <<paramVars, diskVars, configVars, wrapper, dirVars, replay, appSelected,
                   persisted, sortVars, runVars, pc, exitCode, invocation, previous>>

\* one script; two scripts, b.sh after a.sh; two scripts, a.sh after b.sh
OutputWorlds ==
    {DiskOf(<<(<<"emb", "a.sh">>)>>, <<(<<>>)>>),
     DiskOf(<<(<<"emb", "a.sh">>), (<<"emb", "b.sh">>)>>, <<(<<>>), (<<"a.sh">>)>>),
     DiskOf(<<(<<"emb", "a.sh">>), (<<"emb", "b.sh">>)>>, <<(<<"./b.sh">>), (<<>>)>>)}

InitOutput ==
    /\ disk \in OutputWorlds
    /\ unreadable = {}
    /\ replay = FALSE
    /\ appSelected = <<>>
    /\ NoStores
    /\ Rest

NextOutput ==
    \/ Next
    \/ \E child \in 1..Len(selected), stream \in Streams, data \in DataMenu :
          Data(child, stream, data)

SpecOutput == InitOutput /\ [][NextOutput]_vars

(***************************************************************************)
(* A prompt of parameter resolution that is interrupted: it does not       *)
(* return, and main goes no further. What the process exits with is the    *)
(* prompt library's choice.                                                *)
(***************************************************************************)
InterruptCodes == {0, 1, 130}

\* the prompt the step at the head of the walk raises, kind "" if it raises none
promptOf(item) ==
    IF item.kind = "arg"
    THEN LET arg == selected[item.script].args[item.k]
         IN  [kind |-> IF argKnown(args, arg.name) THEN "" ELSE "Input", name |-> arg.name]
    ELSE LET opt == selected[item.script].opts[item.k]
         IN  [kind |->
                 IF optKnown(opts, opt.name) THEN ""
                 ELSE IF opt.type = "boolean" THEN "Confirm"
                 ELSE IF /\ opt.type = "worktree"
                         /\ opt.baseDirArg # ""
                         /\ baseDirSet(args, opt.baseDirArg)
                         /\ shouldPrompt(listWorktrees(baseDirOf(args, opt.baseDirArg)), opt)
                 THEN "Select"
                 ELSE "",
              name |-> opt.name]

\* the prompt is shown and interrupted: the loops are left where they stand
Interrupt ==
    /\ pc = "params"
    /\ todo # <<>>
    /\ promptOf(Head(todo)).kind # ""
    /\ prompts' = Append(prompts, promptOf(Head(todo)))
    /\ probes' = IF promptOf(Head(todo)).kind = "Select"
                 THEN Append(probes,
                             baseDirOf(args, selected[Head(todo).script].opts[Head(todo).k].baseDirArg))
                 ELSE probes
    /\ \E code \in InterruptCodes : exitCode' = code
    /\ pc' = "exited"
    /\ UNCHANGED <<storeVars, args, opts, todo, warnings, envs, diskVars, configVars, wrapper,
                   dirVars, outputVars, replay, appSelected, persisted, sortVars, runVars, invocation,
                   previous>>

InitInterrupt ==
    /\ disk \in ParamWorlds
    /\ unreadable = {}
    /\ replay = FALSE
    /\ appSelected = <<>>
    /\ globalArgs \in ArgStores
    /\ appOpts \in OptStores
    /\ Rest

NextInterrupt ==
    \/ NextParams
    \/ Interrupt

SpecInterrupt == InitInterrupt /\ [][NextInterrupt]_vars

(***************************************************************************)
(* Replays of a selection some of whose scripts are gone from the          *)
(* directories, and come back between two invocations.                     *)
(***************************************************************************)
\* a.sh alone, naming a file that is no script; b.sh alone; both, b.sh after a.sh
RestoreWorlds ==
    {DiskOf(<<(<<"emb", "a.sh">>)>>, <<(<<"x.txt">>)>>),
     DiskOf(<<(<<"emb", "b.sh">>)>>, <<(<<>>)>>),
     DiskOf(<<(<<"emb", "a.sh">>), (<<"emb", "b.sh">>)>>, <<(<<>>), (<<"a.sh">>)>>)}

\* a script file is put back into the bundled directory while main is not running
Restore(p) ==
    /\ pc = "exited"
    /\ p \notin DOMAIN disk
    /\ disk' = (p :> [after |-> <<>>, args |-> <<>>, opts |-> <<>>, malformed |-> FALSE]) @@ disk
    /\ UNCHANGED <<unreadable, configVars, wrapper, dirVars, outputVars, replay, appSelected, pc,
                   persisted, sortVars, runVars, exitCode, invocation, previous, paramVars>>

\* a run, with --replay or without, that finds both scripts persisted
InitRestore ==
    /\ disk \in RestoreWorlds
    /\ unreadable = {}
    /\ replay \in BOOLEAN
    /\ appSelected = <<"a.sh", "b.sh">>
    /\ NoStores
    /\ Rest

NextRestore ==
    \/ Next
    \/ Rerun
    \/ \E p \in {<<"emb", "a.sh">>, <<"emb", "b.sh">>} : Restore(p)

SpecRestore == InitRestore /\ [][NextRestore]_vars

(***************************************************************************)
(* The commands add-script-dir and remove-script-dir, one process each, on *)
(* the list that ~/.vss.json holds.                                        *)
(***************************************************************************)
\* what the file system holds: three directories and a file; /none is not there
Directories == {"/d1", "/d2", "/d3"}

\* what the commands are given: a directory under two spellings, the others,
\* the file, the path that is not there
Spellings == {"/d1", "/d1/", "/d2", "/d3", "/f", "/none"}

\* path.resolve(directory): the trailing slash goes
path_resolve(directory) == IF directory = "/d1/" THEN "/d1" ELSE directory

\* fs.stat(absolutePath) resolves and stats.isDirectory()
isDirectory(absolutePath) == absolutePath \in Directories

\* a variant without the test for a directory that is registered already
pushedAlways(dirs, absolutePath) == Append(dirs, absolutePath)

\* if (scriptDirs.includes(absolutePath)) return; scriptDirs.push(absolutePath)
pushed(dirs, absolutePath) ==
    IF includes(dirs, absolutePath) THEN dirs ELSE Append(dirs, absolutePath)

\* scriptDirs.filter((dir) => dir !== dirToRemove)
updatedDirs(dirs, dirToRemove) == SelectSeq(dirs, LAMBDA dir : dir # dirToRemove)

ran(name, absolutePath, code, done) ==
    [name |-> name, path |-> absolutePath, code |-> code, done |-> done]

\* vss add-script-dir <directory>
AddScriptDir(directory) ==
    /\ LET absolutePath == path_resolve(directory)
       IN  IF ~isDirectory(absolutePath)
           THEN \* Deno.exit(1): not there, or no directory
                /\ command' = ran("add-script-dir", absolutePath, 1, "failed")
                /\ UNCHANGED scriptDirs
           ELSE /\ scriptDirs' = pushed(scriptDirs, absolutePath)
                /\ command' = ran("add-script-dir", absolutePath, 0,
                                  IF includes(scriptDirs, absolutePath)
                                  THEN "already" ELSE "added")
    /\ UNCHANGED <<mainVars, configVars, wrapper>>

\* vss remove-script-dir [directory]; without an argument Select.prompt asks
\* which of the registered directories is to go
RemoveScriptDir(directory) ==
    /\ IF scriptDirs = <<>>
       THEN \* "No external directories configured"
            /\ command' = ran("remove-script-dir", "", 0, "none")
            /\ UNCHANGED scriptDirs
       ELSE IF directory # ""
       THEN LET absolutePath == path_resolve(directory)
            IN  IF includes(scriptDirs, absolutePath)
                THEN /\ scriptDirs' = updatedDirs(scriptDirs, absolutePath)
                     /\ command' = ran("remove-script-dir", absolutePath, 0, "removed")
                ELSE \* Deno.exit(1): not configured
                     /\ command' = ran("remove-script-dir", absolutePath, 1, "failed")
                     /\ UNCHANGED scriptDirs
       ELSE \E k \in 1..Len(scriptDirs) :
                /\ scriptDirs' = updatedDirs(scriptDirs, scriptDirs[k])
                /\ command' = ran("remove-script-dir", scriptDirs[k], 0, "removed")
    /\ UNCHANGED <<mainVars, configVars, wrapper>>

InitDirs ==
    /\ disk \in Worlds({}, 0)
    /\ unreadable = {}
    /\ replay = FALSE
    /\ appSelected = <<>>
    /\ NoStores
    /\ Rest

NextDirs ==
    \/ \E directory \in Spellings : AddScriptDir(directory)
    \/ \E directory \in Spellings \cup {""} : RemoveScriptDir(directory)

SpecDirs == InitDirs /\ [][NextDirs]_vars

\* sortScripts comes to its end once every task has settled: the steps of
\* SortFinish, told by its guard and by where it leaves pc
SortEnds ==
    /\ pc = "sorting"
    /\ \A a \in DOMAIN stat : stat[a] = 0
    /\ pc' \in {"select", "failed"}

\* nothing in main waits for ever: the file system answers every stat, the
\* awaited promises settle, the user answers the prompt, and every child
\* that was spawned closes
FairSpec ==
    /\ Spec
    /\ WF_vars(Begin)
    /\ WF_vars(\E after \in AfterNames : StatDone(after))
    /\ WF_pc(SortEnds)
    /\ WF_vars(Select)
    /\ WF_vars(Persist)
    /\ WF_vars(Announce)
    /\ WF_vars(Spawn)
    /\ WF_vars(\E child \in 1..Len(selected), code \in 0..MaxExitCode : Close(child, code))
    /\ WF_vars(Return)

(***************************************************************************)
(* The dependency relation the claims speak of, read off the files: an     *)
(* 'after' name stands for the file of that name in the first known        *)
(* directory that holds one. The scripts are those of the discovery list.  *)
(***************************************************************************)
Holders(after) ==
    {i \in 1..Len(directories) : <<directories[i], normalize(after)>> \in DOMAIN disk}

Resolvable(after) == Holders(after) # {}

Target(after) ==
    <<directories[CHOOSE i \in Holders(after) : \A j \in Holders(after) : i <= j],
      normalize(after)>>

\* script A declares 'after' a name that stands for script B
DeclaresAfter(A, B) ==
    \E k \in 1..Len(A.after) :
        Resolvable(A.after[k]) /\ Target(A.after[k]) = B.absolutePathname

Discovered == 1..Len(scripts)

\* <<i, j>>: the i-th discovered script declares the j-th 'after'
DependsOn ==
    {e \in Discovered \X Discovered : DeclaresAfter(scripts[e[1]], scripts[e[2]])}

\* a chain of at most k + 1 declarations leads from script i to script j
RECURSIVE Reaches(_, _, _)
Reaches(i, j, k) ==
    \/ <<i, j>> \in DependsOn
    \/ k > 0 /\ \E b \in Discovered : <<i, b>> \in DependsOn /\ Reaches(b, j, k - 1)

\* i depends on j, directly or transitively
DependsOnPlus(i, j) == Reaches(i, j, Len(scripts))

\* some scripts each of which declares another of them (or itself) 'after'
HasCycle ==
    \E S \in SUBSET Discovered :
        S # {} /\ \A i \in S : \E j \in S : <<i, j>> \in DependsOn

Unresolved == {a \in aftersKeys(scripts) : ~Resolvable(a)}

\* the position of a script in a list of scripts (0: not there)
PosIn(list, path) ==
    IF \E k \in 1..Len(list) : list[k].absolutePathname = path
    THEN CHOOSE k \in 1..Len(list) : list[k].absolutePathname = path
    ELSE 0

SortReturned == pc = "select"
SortEnded == pc \notin {"start", "sorting"}
ScriptAt(path) == scripts[PosIn(scripts, path)]
Terminated == pc \in {"exited", "failed"}

(***************************************************************************)
(* C1. For inputs whose 'after' names all resolve and form no cycle,       *)
(* sortScripts returns an order, and in every order it returns a script    *)
(* stands after each discovered script it declares 'after'.                *)
(***************************************************************************)
C1_TopologicalOrder ==
    /\ SortReturned =>
          \A e \in DependsOn :
              /\ PosIn(sorted, scripts[e[1]].absolutePathname) # 0
              /\ PosIn(sorted, scripts[e[2]].absolutePathname) # 0
              /\ PosIn(sorted, scripts[e[2]].absolutePathname)
                    < PosIn(sorted, scripts[e[1]].absolutePathname)
    /\ (SortEnded /\ Unresolved = {} /\ ~HasCycle) =>
          SortReturned /\ error = NoError /\ Len(sorted) = Len(scripts)

\* an order was returned in which a script had to move behind a later one
C1_Witness ==
    /\ SortReturned
    /\ \E e \in DependsOn : e[1] < e[2]

(***************************************************************************)
(* C8. As claimed: in the returned order, two scripts neither of which     *)
(* depends on the other, directly or transitively, stand in discovery      *)
(* order.                                                                  *)
(***************************************************************************)
C8_UnconstrainedKeepDiscoveryOrder ==
    SortReturned =>
        \A i, j \in Discovered :
            (i < j /\ ~DependsOnPlus(i, j) /\ ~DependsOnPlus(j, i)) =>
                PosIn(sorted, scripts[i].absolutePathname)
                    < PosIn(sorted, scripts[j].absolutePathname)

HasDependency(i) == \E j \in Discovered : <<i, j>> \in DependsOn

(***************************************************************************)
(* C8, amended. In the returned order, two scripts that both declare no    *)
(* 'after' name standing for a discovered script stand in discovery order. *)
(***************************************************************************)
C8_IndependentKeepDiscoveryOrder ==
    SortReturned =>
        \A i, j \in Discovered :
            (i < j /\ ~HasDependency(i) /\ ~HasDependency(j)) =>
                /\ PosIn(sorted, scripts[i].absolutePathname) # 0
                /\ PosIn(sorted, scripts[i].absolutePathname)
                      < PosIn(sorted, scripts[j].absolutePathname)

\* an order was returned that moved a script, with two independent scripts in it
C8_Witness ==
    /\ SortReturned
    /\ \E i, j \in Discovered : i < j /\ ~HasDependency(i) /\ ~HasDependency(j)
    /\ \E k \in 1..Len(sorted) : sorted[k] # scripts[k]

(***************************************************************************)
(* C9. Two invocations of the resolver on the same files come to the same  *)
(* result: the same order, or a failure of the same kind, whatever the     *)
(* order in which the resolution tasks of either completed.                *)
(***************************************************************************)
C9_SameOrderAgain ==
    (invocation > 1 /\ SortEnded) =>
        /\ Outcome.ok = previous.ok
        /\ Outcome.order = previous.order
        /\ Outcome.kind = previous.kind

\* both invocations returned an order, and their tasks completed in different orders
C9_Witness ==
    /\ invocation > 1
    /\ SortReturned
    /\ previous.ok
    /\ DependsOn # {}
    /\ previous.completions # cache

(***************************************************************************)
(* C10. If a discovered script declares an 'after' name that no known      *)
(* directory holds, getScripts fails with an error that names such a name  *)
(* and the scripts that declare it; no script list is returned, nothing is *)
(* selected and no script is announced or started.                         *)
(***************************************************************************)
C10_UnresolvedAfterFails ==
    Unresolved # {} =>
        /\ pc \in {"sorting", "failed"}
        /\ sorted = <<>> /\ selected = <<>>
        /\ announced = <<>> /\ started = <<>> /\ running = {}
        /\ pc = "failed" =>
              /\ error.kind = "AfterNotFound"
              /\ error.after \in Unresolved
              /\ {error.scripts[k] : k \in 1..Len(error.scripts)} =
                    {scripts[i].absolutePathname : i \in
                        {i \in Discovered : includes(scripts[i].after, error.after)}}
              /\ exitCode # 0

\* discovery failed on a name that only some of the discovered scripts declare
C10_Witness ==
    /\ pc = "failed"
    /\ error.kind = "AfterNotFound"
    /\ \E i \in Discovered : ~includes(scripts[i].after, error.after)

(***************************************************************************)
(* C2. If the scripts' declarations form a cycle, getScripts returns no    *)
(* script list, with a circular-dependency error when every name resolves, *)
(* and no script is selected, announced or started.                        *)
(***************************************************************************)
C2_CycleFails ==
    HasCycle =>
        /\ pc \in {"sorting", "failed"}
        /\ sorted = <<>> /\ selected = <<>>
        /\ announced = <<>> /\ started = <<>> /\ running = {}
        /\ (pc = "failed" /\ Unresolved = {}) => error.kind = "CircularDependency"
        /\ pc = "failed" => exitCode # 0

\* discovery failed on two scripts that declare each other 'after'
C2_Witness ==
    /\ pc = "failed"
    /\ error.kind = "CircularDependency"
    /\ \E i, j \in Discovered : i # j /\ <<i, j>> \in DependsOn /\ <<j, i>> \in DependsOn

\* the same of sortScripts alone, on the larger inputs of SpecSort, where three
\* scripts may form a cycle
SortFailsOnCycle ==
    (HasCycle /\ SortEnded) =>
        /\ pc = "failed" /\ sorted = <<>>
        /\ Unresolved = {} => error.kind = "CircularDependency"

LongCycleSeen ==
    /\ pc = "failed"
    /\ error.kind = "CircularDependency"
    /\ \E i, j, k \in Discovered :
          /\ i # j /\ j # k /\ i # k
          /\ <<i, j>> \in DependsOn /\ <<j, k>> \in DependsOn /\ <<k, i>> \in DependsOn

\* the script started k-th was preceded by a run of B that closed with code 0
HasRunBefore(k, B) ==
    \E m \in 1..(k - 1) :
        /\ started[m] = B.absolutePathname
        /\ m <= Len(closes)
        /\ closes[m] = <<B.absolutePathname, 0>>

(***************************************************************************)
(* C3. As claimed: whenever a script that declares 'after B' is started,   *)
(* B has run to completion with exit code 0 earlier in the run.            *)
(***************************************************************************)
C3_DependencyHasRun ==
    \A k \in 1..Len(started) : \A j \in Discovered :
        DeclaresAfter(ScriptAt(started[k]), scripts[j]) => HasRunBefore(k, scripts[j])

(***************************************************************************)
(* C3, amended. Whenever a script that declares 'after B' is started in a  *)
(* run whose selection holds B, B has run to completion with exit code 0   *)
(* earlier in the run.                                                     *)
(***************************************************************************)
C3_SelectedDependencyHasRun ==
    \A k \in 1..Len(started) : \A j \in Discovered :
        (/\ DeclaresAfter(ScriptAt(started[k]), scripts[j])
         /\ PosIn(selected, scripts[j].absolutePathname) # 0) =>
            HasRunBefore(k, scripts[j])

\* a script was started after the selected script it declares 'after', which
\* discovery lists behind it
C3_Witness ==
    \E k \in 1..Len(started) : \E j \in Discovered :
        /\ DeclaresAfter(ScriptAt(started[k]), scripts[j])
        /\ PosIn(selected, scripts[j].absolutePathname) # 0
        /\ PosIn(scripts, started[k]) < j

InResolvedOrder(paths) ==
    \A k, m \in 1..Len(paths) :
        k < m => /\ PosIn(sorted, paths[k]) # 0
                 /\ PosIn(sorted, paths[k]) < PosIn(sorted, paths[m])

(***************************************************************************)
(* C4. The scripts of a run are announced and started in the order of the  *)
(* list getScripts returned, whatever the order of the persisted selection *)
(* and whichever boxes were checked.                                       *)
(***************************************************************************)
C4_StartedInResolvedOrder == InResolvedOrder(announced) /\ InResolvedOrder(started)

\* a replay started two scripts that the persisted selection lists the other
\* way round
C4_Witness ==
    /\ replay
    /\ Len(started) >= 2 /\ Len(persisted) >= 2
    /\ ScriptAt(started[1]).pathname = persisted[2]
    /\ ScriptAt(started[2]).pathname = persisted[1]

(***************************************************************************)
(* C5. Once a script has closed with a nonzero code, the invocation has    *)
(* exited with that code, and no script was announced or started after it. *)
(***************************************************************************)
C5_NonzeroExitAborts ==
    \A m \in 1..Len(closes) :
        closes[m][2] # 0 =>
            /\ m = Len(closes)
            /\ pc = "exited" /\ exitCode = closes[m][2]
            /\ Len(announced) = m /\ Len(started) = m
            /\ running = {}

\* a script closed with code 2 while another was still to run
C5_Witness ==
    /\ pc = "exited"
    /\ exitCode = 2
    /\ Len(started) < Len(selected)

AllClosedZero == \A m \in 1..Len(closes) : closes[m][2] = 0

(***************************************************************************)
(* C6. Every run ends; one that ends with every child closed with code 0   *)
(* (an empty selection included) has started each selected script once, in *)
(* turn, and exits with code 0.                                            *)
(***************************************************************************)
C6_ZeroRunCompletes ==
    /\ []((pc = "exited" /\ AllClosedZero) =>
            /\ exitCode = 0
            /\ started = [k \in 1..Len(selected) |-> selected[k].absolutePathname]
            /\ Len(closes) = Len(selected))
    /\ <>Terminated

\* a run of two scripts ended with code 0
C6_Witness ==
    /\ pc = "exited"
    /\ exitCode = 0
    /\ Len(started) >= 2

(***************************************************************************)
(* C7. At most one child process is alive at any moment, and every script  *)
(* started before the latest one has closed with code 0.                   *)
(***************************************************************************)
C7_OneChildAtATime ==
    /\ Cardinality(running) <= 1
    /\ \A m \in 1..(Len(started) - 1) :
          m <= Len(closes) /\ closes[m] = <<started[m], 0>>

\* a second child is alive
C7_Witness ==
    /\ Len(started) >= 2
    /\ running # {}

\* the file of that name in the first directory that holds one, the bundled
\* directory before the external ones and these in registration order
FirstMatch(after, hit) ==
    /\ hit[2] = normalize(after)
    /\ hit \in DOMAIN disk
    /\ \/ hit[1] = EmbeddedDir
       \/ /\ <<EmbeddedDir, normalize(after)>> \notin DOMAIN disk
          /\ \E i \in 1..Len(ExternalDirs) :
                /\ hit[1] = ExternalDirs[i]
                /\ \A j \in 1..(i - 1) : <<ExternalDirs[j], normalize(after)>> \notin DOMAIN disk

(***************************************************************************)
(* C11. Every 'after' name is resolved to the file of that name in the     *)
(* first directory that holds one, the bundled directory first and then    *)
(* the external ones in registration order; when sortScripts returns,      *)
(* every declared name is resolved so, and a script that declares the name *)
(* comes after the script that file is.                                    *)
(***************************************************************************)
C11_FirstDirectoryWins ==
    /\ \A k \in 1..Len(cache) : FirstMatch(cache[k][1], cache[k][2])
    /\ SortReturned =>
          \A i \in Discovered : \A n \in 1..Len(scripts[i].after) :
              /\ cacheHas(cache, scripts[i].after[n])
              /\ \A j \in Discovered :
                    FirstMatch(scripts[i].after[n], scripts[j].absolutePathname) =>
                        PosIn(sorted, scripts[j].absolutePathname)
                            < PosIn(sorted, scripts[i].absolutePathname)

\* a name held by both external directories was resolved, and the order returned
C11_Witness ==
    /\ SortReturned
    /\ \E k \in 1..Len(cache) :
          /\ cache[k][2][1] = ExternalDirs[1]
          /\ <<ExternalDirs[2], cache[k][2][2]>> \in DOMAIN disk
          /\ PosIn(scripts, cache[k][2]) # 0

(***************************************************************************)
(* What the claims about parameter resolution speak of.                    *)
(***************************************************************************)
OptPrompts == {"Confirm", "Select"}
ParamPrompts == {"Input", "Confirm", "Select"}

\* the prompts of these kinds, in the order they were shown
Asked(kinds) == SelectSeq(prompts, LAMBDA q : q.kind \in kinds)

\* no name was asked for twice
AskedOnce(kinds) ==
    \A k, m \in 1..Len(Asked(kinds)) : k # m => Asked(kinds)[k].name # Asked(kinds)[m].name

\* parameter resolution is over and the run loop entered
Resolved == pc \in {"loop", "prepare", "wait", "exited"}

\* the selected scripts declare this argument, this option
SelectedArg(name) ==
    \E i \in 1..Len(selected) : \E k \in 1..Len(selected[i].args) :
        selected[i].args[k].name = name

SelectedOpt(name, type) ==
    \E i \in 1..Len(selected) : \E k \in 1..Len(selected[i].opts) :
        selected[i].opts[k].name = name /\ selected[i].opts[k].type = type

(***************************************************************************)
(* C12. No prompt is shown for an option whose name is a key of the        *)
(* per-project option store, a stored false included: while parameters are *)
(* resolved no option prompt names a key of the file, and no option is     *)
(* asked for twice in a run.                                               *)
(***************************************************************************)
C12_StoredOptionNotAsked ==
    /\ pc = "params" =>
          \A k \in 1..Len(Asked(OptPrompts)) : Asked(OptPrompts)[k].name \notin DOMAIN appOpts
    /\ AskedOnce(OptPrompts)

\* the loops went over a selected boolean option stored as false, and asked nothing
C12_Witness ==
    /\ pc = "params"
    /\ todo = <<>>
    /\ "MODE" \in DOMAIN appOpts
    /\ appOpts["MODE"] = Bool(FALSE)
    /\ SelectedOpt("MODE", "boolean")
    /\ Asked(OptPrompts) = <<>>

(***************************************************************************)
(* C13. As claimed: no prompt is shown for an argument whose name is a key *)
(* of the global argument store, whatever string or boolean is stored      *)
(* under it.                                                               *)
(***************************************************************************)
C13_StoredArgumentNotAsked ==
    pc = "params" =>
        \A k \in 1..Len(Asked({"Input"})) : Asked({"Input"})[k].name \notin DOMAIN globalArgs

(***************************************************************************)
(* C14. A first run started with nothing stored, on a selection that       *)
(* declares arguments and boolean options only, asks once for each         *)
(* declared name and writes the answers to the two files; the run after    *)
(* it, on the same selection and those files, shows no parameter prompt.   *)
(***************************************************************************)
BooleanOptsOnly ==
    \A i \in 1..Len(selected) : \A k \in 1..Len(selected[i].opts) :
        selected[i].opts[k].type = "boolean"

C14_SecondRunAsksNothing ==
    BooleanOptsOnly =>
        /\ (invocation = 1 /\ Resolved) =>
              /\ AskedOnce(ParamPrompts)
              /\ \A name \in {"DIR", "MODE", "WT", "ADDR"} :
                    /\ SelectedArg(name) <=>
                          \E k \in 1..Len(prompts) :
                              prompts[k] = [kind |-> "Input", name |-> name]
                    /\ SelectedOpt(name, "boolean") <=>
                          \E k \in 1..Len(prompts) :
                              prompts[k] = [kind |-> "Confirm", name |-> name]
                    /\ SelectedArg(name) =>
                          name \in DOMAIN globalArgs /\ globalArgs[name] = args[name]
                    /\ SelectedOpt(name, "boolean") =>
                          name \in DOMAIN appOpts /\ appOpts[name] = opts[name]
        /\ invocation > 1 => Asked(ParamPrompts) = <<>>

\* a second run went through a selection with an argument and an option answered
\* false in the first run
C14_Witness ==
    /\ invocation = 2
    /\ pc = "exited"
    /\ SelectedArg("DIR")
    /\ SelectedOpt("MODE", "boolean")
    /\ "MODE" \in DOMAIN appOpts
    /\ appOpts["MODE"] = Bool(FALSE)
    /\ Len(previous.prompts) = 3
    /\ prompts = <<>>

(***************************************************************************)
(* C15. As claimed: after parameter resolution every string-typed option   *)
(* of a selected script has a value in the option store.                   *)
(***************************************************************************)
C15_StringOptionResolved ==
    Resolved =>
        \A i \in 1..Len(selected) : \A k \in 1..Len(selected[i].opts) :
            selected[i].opts[k].type = "string" =>
                selected[i].opts[k].name \in DOMAIN opts

\* the option the option loop is about to look at, when it is an unresolved
\* worktree option
AtUnresolvedWorktree ==
    /\ pc = "params"
    /\ todo # <<>>
    /\ Head(todo).kind = "opt"
    /\ selected[Head(todo).script].opts[Head(todo).k].type = "worktree"
    /\ selected[Head(todo).script].opts[Head(todo).k].name \notin DOMAIN opts

OptAhead == selected[Head(todo).script].opts[Head(todo).k]

(***************************************************************************)
(* C16. The step over an unresolved worktree option that is optional and   *)
(* whose probe finds no worktree shows no prompt and adds nothing to the   *)
(* option store; and an environment built for a script holds the name of   *)
(* an option only if the store has a value other than null for it.         *)
(***************************************************************************)
C16_OptionalWorktreeLeftUnset ==
    /\ [][(/\ AtUnresolvedWorktree
           /\ OptAhead.optional
           /\ Len(probes') = Len(probes) + 1
           /\ listWorktrees(probes'[Len(probes')]) = <<>>)
          => (prompts' = prompts /\ opts' = opts)]_vars
    /\ [](\A m \in 1..Len(envs) : \A name \in {"MODE", "WT", "ADDR"} :
             name \in DOMAIN envs[m] => name \in DOMAIN opts /\ opts[name] # Null)

\* a script that declares an optional worktree option was announced after a probe
\* that found nothing: the option is in neither the store nor the environment
C16_Witness ==
    /\ Len(envs) >= 1
    /\ \E k \in 1..Len(selected[1].opts) :
          /\ selected[1].opts[k].name = "WT"
          /\ selected[1].opts[k].optional
    /\ probes = <<"/plain">>
    /\ "WT" \notin DOMAIN opts
    /\ "WT" \notin DOMAIN envs[1]
    /\ Asked({"Select"}) = <<>>

(***************************************************************************)
(* C17. The step over an unresolved worktree option whose baseDirArg is no *)
(* key of the argument store warns and does nothing else: no probe, no     *)
(* prompt, nothing stored, and the loops go on with what follows.          *)
(***************************************************************************)
C17_MissingBaseDirSkips ==
    [][(AtUnresolvedWorktree /\ OptAhead.baseDirArg \notin DOMAIN args)
          => /\ warnings' = Append(warnings, OptAhead.name)
             /\ probes' = probes
             /\ prompts' = prompts
             /\ opts' = opts
             /\ todo' = Tail(todo)
             /\ pc' = "params"]_vars

\* a worktree option was skipped with a warning, and the option declared after
\* it was asked for
C17_Witness ==
    /\ pc = "params"
    /\ warnings = <<"WT">>
    /\ probes = <<>>
    /\ "WT" \notin DOMAIN opts
    /\ Len(selected) >= 1
    /\ Len(selected[1].opts) = 2
    /\ selected[1].opts[1].name = "WT"
    /\ Asked(OptPrompts) = <<[kind |-> "Confirm", name |-> "MODE"]>>

\* the names of the arguments a script declares
ArgNames(script) == {script.args[k].name : k \in 1..Len(script.args)}
OptNames(script) == {script.opts[k].name : k \in 1..Len(script.opts)}

(***************************************************************************)
(* C18. No argument is asked for twice in a run, and the scripts that      *)
(* declare the same argument all find it in their environment, with the    *)
(* same value.                                                             *)
(***************************************************************************)
C18_SharedArgumentAskedOnce ==
    /\ AskedOnce({"Input"})
    /\ \A m, n \in 1..Len(envs) :
          \A name \in ArgNames(ScriptAt(announced[m])) \cap ArgNames(ScriptAt(announced[n])) :
              /\ name \in DOMAIN envs[m]
              /\ name \in DOMAIN envs[n]
              /\ envs[m][name] = envs[n][name]

\* two scripts that declare the same argument were announced, after one prompt
C18_Witness ==
    /\ Len(envs) = 2
    /\ "DIR" \in ArgNames(ScriptAt(announced[1])) \cap ArgNames(ScriptAt(announced[2]))
    /\ Len(Asked({"Input"})) = 1

\* what a declared name must be in the environment, given its value in the store
InEnv(env, store, name) ==
    IF name \in DOMAIN store /\ store[name].type = "string"
    THEN name \in DOMAIN env /\ env[name] = store[name].str
    ELSE IF name \in DOMAIN store /\ store[name].type = "boolean"
    THEN name \in DOMAIN env /\ env[name] = (IF store[name].bool THEN "true" ELSE "false")
    ELSE name \in DOMAIN ProcessEnv => name \in DOMAIN env /\ env[name] = ProcessEnv[name]

(***************************************************************************)
(* C19. The environment built for a script is process.env overlaid with    *)
(* the stored value of every argument and option the script declares, a    *)
(* string as it is and a boolean as "true" or "false"; an option that is   *)
(* null or not stored is not written, and nothing else is.                 *)
(***************************************************************************)
C19_EnvironmentIsOverlay ==
    \A m \in 1..Len(envs) :
        LET script == ScriptAt(announced[m])
        IN  /\ \A name \in ArgNames(script) : InEnv(envs[m], args, name)
            /\ \A name \in OptNames(script) :
                  /\ InEnv(envs[m], opts, name)
                  /\ (name \notin DOMAIN opts \/ opts[name] = Null) =>
                        name \notin DOMAIN envs[m]
            /\ \A name \in DOMAIN envs[m] \ (ArgNames(script) \cup OptNames(script)) :
                  name \in DOMAIN ProcessEnv /\ envs[m][name] = ProcessEnv[name]
            /\ DOMAIN ProcessEnv \subseteq DOMAIN envs[m]

\* an environment with a string argument and an option that is false
C19_Witness ==
    \E m \in 1..Len(envs) :
        /\ "DIR" \in DOMAIN envs[m]
        /\ envs[m]["DIR"] = "/repo"
        /\ "MODE" \in DOMAIN envs[m]
        /\ envs[m]["MODE"] = "false"

(***************************************************************************)
(* C20. With --replay no selection prompt is shown, and the selection is   *)
(* the scripts of the resolved list whose pathname the persisted selection *)
(* holds, in resolved order: a persisted entry that no discovered script   *)
(* bears is dropped without an error; the scripts are started in that      *)
(* order.                                                                  *)
(***************************************************************************)
C20_ReplayKeepsDiscovered ==
    (replay /\ pc \in {"params", "loop", "prepare", "wait", "exited"}) =>
        /\ Asked({"Checkbox"}) = <<>>
        /\ error = NoError
        /\ \A i \in 1..Len(sorted) :
              PosIn(selected, sorted[i].absolutePathname) # 0
                  <=> \E k \in 1..Len(persisted) : persisted[k] = sorted[i].pathname
        /\ \A k \in 1..Len(selected) : PosIn(sorted, selected[k].absolutePathname) # 0
        /\ InResolvedOrder([k \in 1..Len(selected) |-> selected[k].absolutePathname])
        /\ \A k \in 1..Len(started) : started[k] = selected[k].absolutePathname

\* a replay ran its two scripts although one persisted entry is no script any more
C20_Witness ==
    /\ replay
    /\ pc = "exited"
    /\ exitCode = 0
    /\ Len(started) = 2
    /\ \E k \in 1..Len(persisted) :
          \A i \in 1..Len(scripts) : scripts[i].pathname # persisted[k]

(***************************************************************************)
(* C21: two discovered scripts that bear the same file name in different   *)
(* directories are distinct in the run selection: when a run selected only *)
(* one of the two and persisted its selection, the --replay run that       *)
(* follows neither selects nor starts the other one.                       *)
(***************************************************************************)
C21_SameNameScriptsDistinct ==
    (invocation > 1 /\ replay /\ previous.ok
        /\ pc \in {"params", "loop", "prepare", "wait", "exited"}) =>
        \A i, j \in 1..Len(sorted) :
            (/\ i # j
             /\ sorted[i].pathname = sorted[j].pathname
             /\ includes(previous.selected, sorted[i].absolutePathname)
             /\ ~includes(previous.selected, sorted[j].absolutePathname))
                => /\ PosIn(selected, sorted[j].absolutePathname) = 0
                   /\ ~includes(started, sorted[j].absolutePathname)

(***************************************************************************)
(* C22: a run started with --replay shows no prompt at all: neither the    *)
(* selection prompt nor a prompt for an argument or an option.             *)
(***************************************************************************)
C22_ReplayAsksNothing == replay => prompts = <<>>

\* the keys this invocation has called set for, on either store
Written(key) == \E k \in 1..Len(writes) : writes[k].key = key

(***************************************************************************)
(* C23: when the argument store has no keys at the end of parameter        *)
(* resolution, config.global.set("args", ...) is not called and the file   *)
(* keeps what it held; likewise for the option store and                   *)
(* config.app.set("opts", ...).                                            *)
(***************************************************************************)
C23_EmptyStoreNotWritten ==
    /\ DOMAIN args = {} => ~Written("args")
    /\ DOMAIN opts = {} => ~Written("opts")
    /\ Resolved =>
          /\ DOMAIN args = {} => globalArgs = NoValues
          /\ DOMAIN opts = {} => appOpts = NoValues

\* resolution ended with an option resolved and no argument: the option store
\* was written, the argument store was not
C23_Witness ==
    /\ Resolved
    /\ DOMAIN args = {}
    /\ DOMAIN opts # {}
    /\ Written("opts")
    /\ ~Written("args")
    /\ Asked({"Confirm"}) # <<>>

WrittenKeys == [k \in 1..Len(writes) |-> writes[k].key]

(***************************************************************************)
(* C26, as stated: every store write of an invocation (run selection,      *)
(* global arguments, per-project options) happens after parameter          *)
(* resolution has completed.                                               *)
(***************************************************************************)
C26_WritesAfterResolution == writes # <<>> => (pc # "params" \/ todo = <<>>)

(***************************************************************************)
(* C26, amended: the run selection is written as soon as the selection is  *)
(* made, before parameter resolution; the global arguments and the         *)
(* per-project options are written after parameter resolution has          *)
(* completed, arguments first; every key is written at most once, and      *)
(* from the end of resolution on (so before the first script is started    *)
(* and ever after) no store is written.                                    *)
(***************************************************************************)
C26_WritesBeforeFirstStart ==
    /\ [](/\ WrittenKeys \in {<<>>, <<"selected">>, <<"selected", "args">>,
                              <<"selected", "opts">>, <<"selected", "args", "opts">>}
          /\ Written("selected") <=> pc \in {"params", "loop", "prepare", "wait", "exited"}
          /\ (Written("args") \/ Written("opts")) => Resolved
          /\ started # <<>> => Resolved)
    /\ [][Resolved => /\ writes' = writes
                      /\ globalArgs' = globalArgs
                      /\ appOpts' = appOpts
                      /\ appSelected' = appSelected]_vars

\* a script is started after the three stores were written, the selection
\* before the prompts of parameter resolution
C26_Witness ==
    /\ started # <<>>
    /\ WrittenKeys = <<"selected", "args", "opts">>
    /\ Asked({"Input"}) # <<>>
    /\ Asked({"Confirm"}) # <<>>

\* what the object written by the last set holds for a key, as get reads it
PutValue(key) == IF key \in DOMAIN put.cache THEN put.cache[key] ELSE defaults[key]

(***************************************************************************)
(* C25: store round trip. After set(key, value) on a store made by         *)
(* createConfig, get returns, for every key, what the written object       *)
(* holds, on the instance that wrote and on a fresh instance over the same *)
(* file alike, for string, boolean and null values.                        *)
(***************************************************************************)
C25_StoreRoundTrip == (put.done /\ got.key # "") => got.value = PutValue(got.key)

\* a fresh instance read back a record that holds a null and a boolean
C25_Witness ==
    /\ put.done
    /\ got.fresh
    /\ got.key = "opts"
    /\ \E n, m \in DOMAIN got.value :
          /\ n # m
          /\ got.value[n] = Null
          /\ got.value[m] = Bool(FALSE)

(***************************************************************************)
(* What the claims about discovery speak of.                               *)
(***************************************************************************)
\* the script files a directory holds, in the order readdir lists them
ScriptFiles(dir) ==
    SelectSeq(FileOrder, LAMBDA f : <<dir, f>> \in DOMAIN disk /\ endsWithSh(f))

\* the part of the discovery list that comes from a directory
DiscoveredIn(dir) == SelectSeq(scripts, LAMBDA script : script.absolutePathname[1] = dir)

\* the directories have been listed
Listed == pc # "start"

(***************************************************************************)
(* C27: when one script of a directory carries a malformed '@vercel.opt'   *)
(* line, only that script is dropped: every well-formed script of a        *)
(* readable directory, those beside it included, is discovered.            *)
(***************************************************************************)
C27_OnlyMalformedDropped ==
    Listed =>
        \A i \in 1..Len(directories) :
            directories[i] \notin unreadable =>
                \A k \in 1..Len(ScriptFiles(directories[i])) :
                    LET p == <<directories[i], ScriptFiles(directories[i])[k]>>
                    IN  ~disk[p].malformed => PosIn(scripts, p) # 0

(***************************************************************************)
(* C28: when a script directory cannot be read, discovery yields no script *)
(* for it and raises no error, and the discovery list still holds, for     *)
(* every other directory, what that directory yields: its script files in  *)
(* the order of the listing (none if one of them cannot be parsed).        *)
(***************************************************************************)
C28_UnreadableDirectoryYieldsNothing ==
    /\ pc = "sorting" /\ (\A a \in DOMAIN stat : stat[a] # 0) => error = NoError
    /\ Listed =>
          \A i \in 1..Len(directories) :
              LET dir == directories[i]
              IN  /\ dir \in unreadable => DiscoveredIn(dir) = <<>>
                  /\ dir \notin unreadable =>
                        pathnames(DiscoveredIn(dir)) =
                            IF \E k \in 1..Len(ScriptFiles(dir)) :
                                   disk[<<dir, ScriptFiles(dir)[k]>>].malformed
                            THEN <<>>
                            ELSE ScriptFiles(dir)

\* a registered directory that holds a script cannot be read: the scripts of
\* the bundled directory are discovered and resolved
C28_Witness ==
    /\ pc = "select"
    /\ error = NoError
    /\ unreadable = {"ext"}
    /\ <<"ext", "a.sh">> \in DOMAIN disk
    /\ Len(DiscoveredIn("emb")) = 2
    /\ Len(sorted) = 2

(***************************************************************************)
(* C30: for a target path that is a regular file, the exit code of the     *)
(* runtime wrapper, as main invokes it, is the exit code of the script it  *)
(* sources.                                                                *)
(***************************************************************************)
C30_WrapperExitsAsScript ==
    (wrapper.at = "done" /\ wrapper.target.isFile) => wrapper.status = wrapper.target.code

(***************************************************************************)
(* C31: when the git worktree command fails for the base directory,        *)
(* listWorktrees returns the empty list, and parameter resolution goes on  *)
(* without an error: the option is left unset if it is optional, and is    *)
(* asked for with no worktree to choose from otherwise.                    *)
(***************************************************************************)
C31_GitFailureYieldsNoWorktrees ==
    /\ \A k \in 1..Len(probes) :
          ~git_worktree_list(probes[k]).ok => listWorktrees(probes[k]) = <<>>
    /\ [][(pc = "params" /\ Len(probes') > Len(probes)
              /\ ~git_worktree_list(probes'[Len(probes')]).ok) =>
             LET opt == selected[Head(todo).script].opts[Head(todo).k]
             IN  /\ pc' = "params"
                 /\ error' = NoError
                 /\ exitCode' = -1
                 /\ todo' = Tail(todo)
                 /\ IF opt.optional THEN opts' = opts /\ prompts' = prompts
                    ELSE /\ prompts' = Append(prompts, [kind |-> "Select", name |-> opt.name])
                         /\ opts'[opt.name] = Null]_vars

\* a run came to its end after git had failed for the base directory of a
\* worktree option that is not optional
C31_Witness ==
    /\ pc = "exited"
    /\ exitCode = 0
    /\ \E k \in 1..Len(probes) : ~git_worktree_list(probes[k]).ok
    /\ Asked({"Select"}) # <<>>

\* one step of parameter resolution comes before another: an earlier selected
\* script, or the same script and an argument before an option, or the same
\* list and an earlier entry
StepBefore(x, y) ==
    \/ x.script < y.script
    \/ x.script = y.script /\ x.kind = "arg" /\ y.kind = "opt"
    \/ x.script = y.script /\ x.kind = y.kind /\ x.k < y.k

\* what the step declares
DeclaredBy(x) ==
    IF x.kind = "arg" THEN selected[x.script].args[x.k] ELSE selected[x.script].opts[x.k]

PromptKinds == {"Input", "Confirm", "Select"}

(***************************************************************************)
(* C32: parameter prompts are issued only for arguments and options that   *)
(* selected scripts declare; the selected scripts are walked in execution  *)
(* order and within one script all arguments come before any option; no    *)
(* prompt is issued for a name only unselected scripts declare.            *)
(***************************************************************************)
C32_PromptsFollowSelection ==
    /\ [](/\ \A i, j \in 1..Len(todo) : i < j => StepBefore(todo[i], todo[j])
          /\ \A i \in 1..Len(todo) : todo[i].script \in 1..Len(selected)
          /\ \A i, j \in 1..Len(selected) :
                i < j => \E m, n \in 1..Len(sorted) :
                            m < n /\ sorted[m] = selected[i] /\ sorted[n] = selected[j]
          /\ \A k \in 1..Len(prompts) :
                /\ prompts[k].kind = "Input" => SelectedArg(prompts[k].name)
                /\ prompts[k].kind \in {"Confirm", "Select"} =>
                      \E i \in 1..Len(selected) : \E m \in 1..Len(selected[i].opts) :
                          selected[i].opts[m].name = prompts[k].name)
    /\ [][(Len(prompts') > Len(prompts) /\ prompts'[Len(prompts')].kind \in PromptKinds) =>
             /\ pc = "params"
             /\ todo # <<>>
             /\ todo' = Tail(todo)
             /\ prompts' = Append(prompts, prompts'[Len(prompts')])
             /\ prompts'[Len(prompts')].name = DeclaredBy(Head(todo)).name
             /\ (prompts'[Len(prompts')].kind = "Input") = (Head(todo).kind = "arg")
             /\ \A i \in 1..Len(todo') : StepBefore(Head(todo), todo'[i])]_vars

\* one script was asked for its argument and then for its option, while the
\* other script was left unselected
C32_Witness ==
    /\ Resolved
    /\ Len(selected) = 1
    /\ Len(sorted) = 2
    /\ Len(prompts) = 3
    /\ prompts[2].kind = "Input"
    /\ prompts[3].kind \in {"Confirm", "Select"}

\* what a child has written to one of its streams, all chunks together
StreamOf(child, stream) ==
    flat([k \in 1..Len(SelectSeq(chunks, LAMBDA c : c.child = child /\ c.stream = stream)) |->
            SelectSeq(chunks, LAMBDA c : c.child = child /\ c.stream = stream)[k].data])

\* the lines of a stream: what stands between its newlines
WrittenLines(content) ==
    LET parts == split(content)
    IN  IF parts[Len(parts)] = <<>> THEN SubSeq(parts, 1, Len(parts) - 1) ELSE parts

\* the lines logged behind a tag for one stream, in order
EmittedLines(tag, stream) ==
    LET logged == SelectSeq(emitted, LAMBDA e : e.tag = tag /\ e.stream = stream)
    IN  [k \in 1..Len(logged) |-> logged[k].line]

Closed(child) == \E k \in 1..Len(closes) : closes[k][1] = selected[child].absolutePathname

(***************************************************************************)
(* C33: every line a child has written to stdout or stderr is logged       *)
(* exactly once, as one line behind the script's tag, in its order within  *)
(* its stream, however the stream was cut into data chunks.                *)
(***************************************************************************)
C33_EveryLineOnce ==
    \A child \in 1..Len(selected) : \A stream \in Streams :
        Closed(child) =>
            EmittedLines(selected[child].pathname, stream)
                = WrittenLines(StreamOf(child, stream))

\* the same for streams without blank or indented lines: only the cut of a
\* line over two chunks is left to tell the two apart
C33_CutLine ==
    \A child \in 1..Len(selected) : \A stream \in Streams :
        (/\ Closed(child)
         /\ \A k \in 1..Len(chunks) : chunks[k].data \in {<<"x">>, <<"y", NL>>, <<"x", NL>>})
            => EmittedLines(selected[child].pathname, stream)
                  = WrittenLines(StreamOf(child, stream))

(***************************************************************************)
(* C34: all output of a script is logged before the next script is        *)
(* announced: a data callback of a child runs only while that child is    *)
(* the last script announced and the last one started, and every line it  *)
(* logs carries that script's tag.                                         *)
(***************************************************************************)
C34_OutputBeforeNextScript ==
    [][Len(chunks') > Len(chunks) =>
          LET child == chunks'[Len(chunks')].child
          IN  /\ Len(announced) = child
              /\ Len(started) = child
              /\ announced[Len(announced)] = selected[child].absolutePathname
              /\ started[Len(started)] = selected[child].absolutePathname
              /\ UNCHANGED <<announced, started>>
              /\ \A k \in (Len(emitted) + 1)..Len(emitted') :
                    emitted'[k].tag = selected[child].pathname]_vars

\* the second script has logged a line after the first one had
C34_Witness ==
    /\ Len(chunks) = 2
    /\ chunks[1].child = 1
    /\ chunks[2].child = 2
    /\ Len(emitted) >= 2
    /\ emitted[1].tag # emitted[Len(emitted)].tag

\* how often a script stands in a list
Count(list, script) == Len(SelectSeq(list, LAMBDA s : s = script))

\* some script names the same dependency twice, or two scripts name the same
RepeatedDependency ==
    \/ \E i \in 1..Len(scripts) : \E k, m \in 1..Len(scripts[i].after) :
          k # m /\ scripts[i].after[k] = scripts[i].after[m]
    \/ \E i, j \in 1..Len(scripts) : \E k \in 1..Len(scripts[i].after) :
          \E m \in 1..Len(scripts[j].after) :
              i # j /\ scripts[i].after[k] = scripts[j].after[m]

(***************************************************************************)
(* C35: an order that sortScripts returns holds every script of the       *)
(* discovery list exactly once, and nothing else, also when an 'after'    *)
(* list repeats a name or several scripts depend on the same script.       *)
(***************************************************************************)
C35_OrderIsPermutation ==
    pc = "select" =>
        /\ Len(sorted) = Len(scripts)
        /\ \A i \in 1..Len(scripts) : Count(sorted, scripts[i]) = Count(scripts, scripts[i])
        /\ \A k \in 1..Len(sorted) : Count(scripts, sorted[k]) > 0

\* an order of three scripts was returned, one dependency being named more
\* than once
C35_Witness ==
    /\ pc = "select"
    /\ Len(sorted) = 3
    /\ RepeatedDependency
    /\ \E i \in 1..Len(scripts) : \E k, m \in 1..Len(scripts[i].after) :
          k # m /\ scripts[i].after[k] = scripts[i].after[m]

\* an 'after' name that resolves to a file which is no discovered script
NonScript(after) == Resolvable(after) /\ PosIn(scripts, Target(after)) = 0

\* the discovery list without the declarations of such names
WithoutNonScripts ==
    [i \in 1..Len(scripts) |->
        [scripts[i] EXCEPT !.after = SelectSeq(@, LAMBDA a : ~NonScript(a))]]

(***************************************************************************)
(* C36: an 'after' name that resolves to an existing file which is not one *)
(* of the discovered scripts adds no edge and raises no error: the order   *)
(* returned, or the error raised, is the one the same scripts give without *)
(* that declaration.                                                       *)
(***************************************************************************)
C36_NonScriptAfterIgnored ==
    /\ pc = "select" =>
          LET result == kahn(WithoutNonScripts, cache)
          IN  /\ ~isCircular(result, WithoutNonScripts)
              /\ sorted = [k \in 1..Len(result) |-> scripts[result[k]]]
    /\ pc = "failed" =>
          \/ error.kind = "AfterNotFound" /\ ~Resolvable(error.after)
          \/ /\ error.kind = "CircularDependency"
             /\ isCircular(kahn(WithoutNonScripts, cache), WithoutNonScripts)

\* an order was returned for two scripts the first of which names a file
\* that is no script, and the second of which names the first
C36_Witness ==
    /\ pc = "select"
    /\ Len(scripts) = 2
    /\ \E k \in 1..Len(scripts[1].after) : NonScript(scripts[1].after[k])
    /\ \E k \in 1..Len(scripts[2].after) :
          Resolvable(scripts[2].after[k])
              /\ Target(scripts[2].after[k]) = scripts[1].absolutePathname

\* a prompt of parameter resolution was interrupted
Interrupted == pc = "exited" /\ todo # <<>>

(***************************************************************************)
(* C37: when a prompt is interrupted during parameter resolution, the      *)
(* answers given earlier in that resolution are in neither parameter       *)
(* store, and the only store call of the invocation is the one that wrote  *)
(* the run selection to the per-project store.                             *)
(***************************************************************************)
C37_InterruptKeepsSelectionOnly ==
    Interrupted =>
        /\ writes = <<[store |-> "app", key |-> "selected"]>>
        /\ appSelected = pathnames(selected)
        /\ \A k \in 1..(Len(prompts) - 1) :
              /\ prompts[k].kind = "Input" =>
                    /\ prompts[k].name \in DOMAIN args
                    /\ ~(/\ prompts[k].name \in DOMAIN globalArgs
                         /\ globalArgs[prompts[k].name] = args[prompts[k].name])
              /\ prompts[k].kind \in {"Confirm", "Select"} =>
                    /\ prompts[k].name \in DOMAIN opts
                    /\ prompts[k].name \notin DOMAIN appOpts

\* the second parameter prompt was interrupted after the first was answered
C37_Witness ==
    /\ Interrupted
    /\ Len(prompts) = 3
    /\ prompts[2].kind \in PromptKinds
    /\ appSelected # <<>>

\* the invocation has got past the selection
PastSelection == pc \in {"params", "loop", "prepare", "wait", "exited"}

(***************************************************************************)
(* C38: every invocation that gets past selection, a replay included,      *)
(* leaves in the persisted selection the names of the scripts it is about  *)
(* to run and no other; a name whose script was not discovered in a replay *)
(* is gone from it, and a later replay does not run that script although   *)
(* it is discovered again.                                                 *)
(***************************************************************************)
C38_SelectionOverwritten ==
    PastSelection =>
        /\ appSelected = pathnames(selected)
        /\ \A k \in 1..Len(persisted) :
              (\A i \in 1..Len(scripts) : scripts[i].pathname # persisted[k])
                  => ~includes(appSelected, persisted[k])
        /\ invocation > 1 =>
              \A i \in 1..Len(selected) :
                  \E k \in 1..Len(previous.selected) :
                      previous.selected[k][2] = selected[i].pathname

\* a second replay discovers a script that the first one did not, and does
\* not run it
C38_Witness ==
    /\ PastSelection
    /\ invocation = 2
    /\ \E i \in 1..Len(scripts) :
          /\ \A k \in 1..Len(previous.order) : previous.order[k] # scripts[i].absolutePathname
          /\ \A j \in 1..Len(selected) : selected[j] # scripts[i]
    /\ selected # <<>>

\* what the store file holds, key by key; nothing if there is no file
FileKeys(f) == IF f.exists THEN JSON_parse(f.json) ELSE <<>>

(***************************************************************************)
(* C39: set(key, value) on a store changes only that key: every other key  *)
(* that the store file holds is still there afterwards, with the value it  *)
(* had.                                                                    *)
(***************************************************************************)
C39_SetChangesOneKey ==
    [][jsonFile' # jsonFile =>
          \E key \in DOMAIN defaults :
              /\ key \in DOMAIN FileKeys(jsonFile')
              /\ \A k \in DOMAIN FileKeys(jsonFile) \ {key} :
                    /\ k \in DOMAIN FileKeys(jsonFile')
                    /\ FileKeys(jsonFile')[k] = FileKeys(jsonFile)[k]]_vars

\* the file holds a selection and options, both set, one of them by the last set
C39_Witness ==
    /\ put.done
    /\ DOMAIN FileKeys(jsonFile) = {"selected", "opts"}
    /\ FileKeys(jsonFile)["selected"] # <<>>
    /\ DOMAIN FileKeys(jsonFile)["opts"] # {}

\* no entry stands in the list twice
NoDuplicate(dirs) == \A i, j \in 1..Len(dirs) : i # j => dirs[i] # dirs[j]

(***************************************************************************)
(* C40: after any sequence of add-script-dir and remove-script-dir         *)
(* commands the registered list holds no directory twice; a command        *)
(* changes it only by appending the directory it registers or by taking    *)
(* out the directory it removes, so the entries stand in the order of      *)
(* their registration; a command that fails, or that adds a directory      *)
(* already registered, leaves the list as it was.                          *)
(***************************************************************************)
C40_RegisteredListWellFormed ==
    /\ [](NoDuplicate(scriptDirs) /\ \A k \in 1..Len(scriptDirs) : isDirectory(scriptDirs[k]))
    /\ [][/\ command'.done = "added" =>
                /\ ~includes(scriptDirs, command'.path)
                /\ scriptDirs' = Append(scriptDirs, command'.path)
          /\ command'.done = "removed" =>
                /\ includes(scriptDirs, command'.path)
                /\ ~includes(scriptDirs', command'.path)
                /\ scriptDirs' = SelectSeq(scriptDirs, LAMBDA dir : includes(scriptDirs', dir))
          /\ command'.done \in {"failed", "already", "none"} => scriptDirs' = scriptDirs
          /\ command'.name = "add-script-dir" =>
                (command'.done = "failed") = (command'.path \notin Directories)
          /\ command'.done = "already" => includes(scriptDirs, command'.path)
          /\ command'.code # 0 => command'.done = "failed"]_vars

\* two directories are registered, and the command that came last was to add
\* one of them again
C40_Witness ==
    /\ Len(scriptDirs) = 2
    /\ command.done = "already"
    /\ command.path = "/d1"
    /\ scriptDirs[2] = "/d1"

=============================================================================
